---- MODULE Spec2Model ----
(***************************************************************************)
(* Bank-rate series normalizer of src/src/app/api/boe/bank-rate/route.ts,  *)
(* the calculators of src/src/lib/finance.ts and the credit-card           *)
(* simulation of src/src/app/bank-rate/ImpactCalculators.tsx.              *)
(*                                                                         *)
(* The parsed XML document is a JavaScript value.  Values are tagged       *)
(* records; a string is a sequence of one-character strings so that        *)
(* parseFloat, String() and localeCompare are computed character by        *)
(* character; a number of the feed is an exact count of hundredths, or     *)
(* NaN.  An object keeps its keys in insertion order (for ... in order).   *)
(*                                                                         *)
(* The calculators work on IEEE 754 doubles: every arithmetic operation    *)
(* is computed exactly on integers of any size and then rounded to 53      *)
(* significant bits, ties to even.                                         *)
(***************************************************************************)
EXTENDS Integers, Sequences, FiniteSets, TLC

VARIABLES
    pc,            \* position of the run: which function is about to be applied
    response,      \* GET: what fetch and response.text() gave, Null when not fetched
    parsed,        \* GET: the document returned by parser.parse
    observations,  \* GET: result of findObservations / argument of parseDataPoints
    points,        \* parseDataPoints result / argument of getChangesOnly
    changesOnly,   \* getChangesOnly result
    latest,        \* GET: the latest field of the data body
    status,        \* GET: HTTP status of the response, 0 while none was sent
    errorText,     \* GET: the error field of an error body, "" otherwise
    node,          \* extractValue: argument node
    key,           \* extractValue: argument key
    extracted,     \* extractValue: return value
    amount,        \* finance.ts: the principal or balance argument
    ratePct,       \* finance.ts: the annualRatePct argument
    term,          \* finance.ts: the years or months argument
    returned,      \* finance.ts: function name -> return value, Undefined before the call
    loan,          \* credit card: what parseFloat made of the three form fields
    currentBalance,\* credit card: let currentBalance
    totalInterest, \* credit card: let totalInterest
    months,        \* credit card: let months
    loanResults,   \* useMemo loanResults: the returned record, Null while running
    latestRate,    \* ImpactCalculators: the latestRate prop
    inputs,        \* ImpactCalculators: the inputs state
    activeTab,     \* ImpactCalculators: the activeTab state
    mortgageResults, \* useMemo mortgageResults
    savingsResults,  \* useMemo savingsResults
    storage,       \* localStorage: the item under STORAGE_KEY, Null when there is none
    effects,       \* React: the effects still to run after the current render
    pending,       \* React: the state updates queued for the next render
    storedBefore   \* history: the item that was stored when the page was last left

\* The variables of the normalizer (all but pc) and of the calculators.
feedVars == <<parsed, observations, points, changesOnly, latest, status,
              errorText, response, node, key, extracted>>
calcVars == <<amount, ratePct, term, returned>>
cardVars == <<loan, currentBalance, totalInterest, months, loanResults>>
pageVars == <<latestRate, inputs, activeTab, mortgageResults, savingsResults,
              storage, effects, pending, storedBefore>>

vars == <<pc, feedVars, calcVars, cardVars, pageVars>>

(***************************************************************************)
(* JavaScript values                                                       *)
(***************************************************************************)
Undefined == [t |-> "undefined"]
Null == [t |-> "null"]
Str(s) == [t |-> "string", s |-> s]
Num(n) == [t |-> "number", nan |-> FALSE, n |-> n]
NaN == [t |-> "number", nan |-> TRUE, n |-> 0]
Obj(m) == [t |-> "object", m |-> m]
Arr(a) == [t |-> "array", a |-> a]

\* ToBoolean: what `if (v)`, `!v` and `a || b` test.
Truthy(v) ==
    CASE v.t = "undefined" -> FALSE
      [] v.t = "null" -> FALSE
      [] v.t = "string" -> v.s # <<>>
      [] v.t = "number" -> ~v.nan /\ v.n # 0
      [] OTHER -> TRUE

\* a || b
Or(a, b) == IF Truthy(a) THEN a ELSE b

\* typeof v === 'object' (true of arrays and of null)
TypeofObject(v) == v.t \in {"object", "array", "null"}

\* obj[k] for a property name k that is not an array index
RECURSIVE Lookup(_, _, _)
Lookup(m, k, i) ==
    IF i > Len(m) THEN Undefined
    ELSE IF m[i][1] = k THEN m[i][2]
    ELSE Lookup(m, k, i + 1)

Get(obj, k) == IF obj.t = "object" THEN Lookup(obj.m, k, 1) ELSE Undefined

(***************************************************************************)
(* Strings and numbers                                                     *)
(***************************************************************************)
DigitChars == <<"0", "1", "2", "3", "4", "5", "6", "7", "8", "9">>

IsDigit(c) == \E d \in 1..10 : DigitChars[d] = c

DigitVal(c) == (CHOOSE d \in 1..10 : DigitChars[d] = c) - 1

\* Decimal digits of a natural number, most significant first.
RECURSIVE DigitsOf(_)
DigitsOf(k) ==
    IF k < 10 THEN <<DigitChars[k + 1]>>
    ELSE DigitsOf(k \div 10) \o <<DigitChars[(k % 10) + 1]>>

Abs(n) == IF n < 0 THEN -n ELSE n

\* Number::toString of a number held in hundredths: shortest decimal form.
NumberString(v) ==
    IF v.nan THEN <<"N", "a", "N">>
    ELSE LET a == Abs(v.n)
             whole == a \div 100
             frac == a % 100
             sign == IF v.n < 0 THEN <<"-">> ELSE <<>>
             tail == IF frac = 0 THEN <<>>
                     ELSE IF frac % 10 = 0 THEN <<".", DigitChars[(frac \div 10) + 1]>>
                     ELSE <<".", DigitChars[(frac \div 10) + 1], DigitChars[(frac % 10) + 1]>>
         IN sign \o DigitsOf(whole) \o tail

\* Array.prototype.join(",") over already converted elements
RECURSIVE Join(_)
Join(ss) ==
    IF ss = <<>> THEN <<>>
    ELSE IF Len(ss) = 1 THEN ss[1]
    ELSE ss[1] \o <<",">> \o Join(Tail(ss))

\* String(v)
RECURSIVE String(_)
String(v) ==
    CASE v.t = "string" -> v.s
      [] v.t = "number" -> NumberString(v)
      [] v.t = "undefined" -> <<"u", "n", "d", "e", "f", "i", "n", "e", "d">>
      [] v.t = "null" -> <<"n", "u", "l", "l">>
      [] v.t = "array" ->
            Join([i \in 1..Len(v.a) |->
                    IF v.a[i].t \in {"undefined", "null"} THEN <<>> ELSE String(v.a[i])])
      [] OTHER -> <<"[", "o", "b", "j", "e", "c", "t", " ",
                    "O", "b", "j", "e", "c", "t", "]">>

\* Length of the longest prefix of s made of decimal digits.
RECURSIVE DigitRun(_)
DigitRun(s) ==
    IF s = <<>> \/ ~IsDigit(Head(s)) THEN 0 ELSE 1 + DigitRun(Tail(s))

\* Value of a digit string as a natural number (0 for the empty string).
RECURSIVE DigitsValue(_)
DigitsValue(s) ==
    IF s = <<>> THEN 0
    ELSE 10 * DigitsValue(SubSeq(s, 1, Len(s) - 1)) + DigitVal(s[Len(s)])

RECURSIVE SkipSpaces(_)
SkipSpaces(s) == IF s # <<>> /\ Head(s) = " " THEN SkipSpaces(Tail(s)) ELSE s

\* parseFloat(s): leading white space is skipped, then the longest prefix
\* [+-] digits [. digits] is read and whatever follows is ignored; NaN when
\* that prefix holds no digit.  Numbers are kept to two decimals (hundredths);
\* exponents and "Infinity" are not part of the strings used here.
ParseFloat(s) ==
    LET s1 == SkipSpaces(s)
        neg == s1 # <<>> /\ Head(s1) = "-"
        s2 == IF s1 # <<>> /\ Head(s1) \in {"-", "+"} THEN Tail(s1) ELSE s1
        nInt == DigitRun(s2)
        s3 == SubSeq(s2, nInt + 1, Len(s2))
        hasDot == s3 # <<>> /\ Head(s3) = "."
        nFrac == IF hasDot THEN DigitRun(Tail(s3)) ELSE 0
        fracDigits == IF hasDot THEN SubSeq(Tail(s3), 1, nFrac) ELSE <<>>
        tenths == IF nFrac >= 1 THEN DigitVal(fracDigits[1]) ELSE 0
        hundredths == IF nFrac >= 2 THEN DigitVal(fracDigits[2]) ELSE 0
        mag == 100 * DigitsValue(SubSeq(s2, 1, nInt)) + 10 * tenths + hundredths
    IN IF nInt + nFrac = 0 THEN NaN
       ELSE Num(IF neg THEN -mag ELSE mag)

\* Collation order of the characters that occur in dates; on these
\* characters localeCompare orders strings as the code-unit order does.
Collation == <<" ", "-", ".", "0", "1", "2", "3", "4", "5", "6", "7", "8", "9",
               "a", "b", "c", "x">>

CharRank(c) ==
    IF \E i \in 1..Len(Collation) : Collation[i] = c
    THEN CHOOSE i \in 1..Len(Collation) : Collation[i] = c
    ELSE Len(Collation) + 1

\* a.localeCompare(b): negative, zero or positive
RECURSIVE LocaleCompare(_, _)
LocaleCompare(a, b) ==
    IF a = <<>> /\ b = <<>> THEN 0
    ELSE IF a = <<>> THEN -1
    ELSE IF b = <<>> THEN 1
    ELSE IF CharRank(Head(a)) < CharRank(Head(b)) THEN -1
    ELSE IF CharRank(Head(a)) > CharRank(Head(b)) THEN 1
    ELSE LocaleCompare(Tail(a), Tail(b))

\* x !== y on numbers: NaN is unequal to everything, itself included.
\* Mutant: only a rise counts as a difference.
StrictNotEqualRise(x, y) == x.nan \/ y.nan \/ x.n < y.n

StrictNotEqual(x, y) == x.nan \/ y.nan \/ x.n # y.n

(***************************************************************************)
(* extractValue(node, key)                                                 *)
(***************************************************************************)
\* Mutant of extractValue: the direct child is tried before the attribute.
ExtractValueChildFirst(n, k) ==
    IF ~Truthy(n) \/ ~TypeofObject(n) THEN Undefined
    ELSE LET attrValue == Get(n, "@_" \o k)
             directValue == Get(n, k)
         IN IF directValue.t \notin {"undefined", "null"} THEN Str(String(directValue))
            ELSE IF attrValue.t \notin {"undefined", "null"} THEN Str(String(attrValue))
            ELSE Undefined

extractValue(n, k) ==
    IF ~Truthy(n) \/ ~TypeofObject(n) THEN Undefined
    ELSE LET attrValue == Get(n, "@_" \o k)
             directValue == Get(n, k)
         IN IF attrValue.t \notin {"undefined", "null"} THEN Str(String(attrValue))
            ELSE IF directValue.t \notin {"undefined", "null"} THEN Str(String(directValue))
            ELSE Undefined

(***************************************************************************)
(* parseDataPoints(observations)                                           *)
(***************************************************************************)
\* The accumulator of the loop: the points pushed so far and seenDates.
EmptyAcc == [points |-> <<>>, seenDates |-> {}]

\* Lines 58-70 and 75-87: one candidate node against the accumulator.
\* Mutant: a later candidate of a seen date replaces the earlier point.
AddCandidateLastWins(acc, cube) ==
    LET timePeriod == Or(extractValue(cube, "TIME_PERIOD"), extractValue(cube, "TIME"))
        obsValue == extractValue(cube, "OBS_VALUE")
        p == [date |-> timePeriod.s, value |-> ParseFloat(String(obsValue))]
    IN IF Truthy(timePeriod) /\ Truthy(obsValue)
       THEN IF timePeriod.s \notin acc.seenDates
            THEN [points |-> Append(acc.points, p),
                  seenDates |-> acc.seenDates \cup {timePeriod.s}]
            ELSE [points |-> [i \in 1..Len(acc.points) |->
                                 IF acc.points[i].date = p.date THEN p ELSE acc.points[i]],
                  seenDates |-> acc.seenDates]
       ELSE acc

\* Mutant: a candidate whose value does not parse is dropped.
AddCandidateDropNaN(acc, cube) ==
    LET timePeriod == Or(extractValue(cube, "TIME_PERIOD"), extractValue(cube, "TIME"))
        obsValue == extractValue(cube, "OBS_VALUE")
    IN IF Truthy(timePeriod) /\ Truthy(obsValue)
          /\ ~ParseFloat(String(obsValue)).nan
       THEN IF timePeriod.s \notin acc.seenDates
            THEN [points |-> Append(acc.points,
                                    [date |-> timePeriod.s,
                                     value |-> ParseFloat(String(obsValue))]),
                  seenDates |-> acc.seenDates \cup {timePeriod.s}]
            ELSE acc
       ELSE acc

\* Mutant: only the TIME_PERIOD field is read for the date.
AddCandidateNoTimeFallback(acc, cube) ==
    LET timePeriod == extractValue(cube, "TIME_PERIOD")
        obsValue == extractValue(cube, "OBS_VALUE")
    IN IF Truthy(timePeriod) /\ Truthy(obsValue)
       THEN IF timePeriod.s \notin acc.seenDates
            THEN [points |-> Append(acc.points,
                                    [date |-> timePeriod.s,
                                     value |-> ParseFloat(String(obsValue))]),
                  seenDates |-> acc.seenDates \cup {timePeriod.s}]
            ELSE acc
       ELSE acc

AddCandidate(acc, cube) ==
    LET timePeriod == Or(extractValue(cube, "TIME_PERIOD"), extractValue(cube, "TIME"))
        obsValue == extractValue(cube, "OBS_VALUE")
    IN IF Truthy(timePeriod) /\ Truthy(obsValue)
       THEN IF timePeriod.s \notin acc.seenDates
            THEN [points |-> Append(acc.points,
                                    [date |-> timePeriod.s,
                                     value |-> ParseFloat(String(obsValue))]),
                  seenDates |-> acc.seenDates \cup {timePeriod.s}]
            ELSE acc
       ELSE acc

\* Lines 54-71: the inner loop over the cubes of one observation.
RECURSIVE AddCubes(_, _)
AddCubes(acc, cubes) ==
    IF cubes = <<>> THEN acc
    ELSE LET cube == Head(cubes)
         IN IF ~Truthy(cube) \/ ~TypeofObject(cube)
            THEN AddCubes(acc, Tail(cubes))
            ELSE AddCubes(AddCandidate(acc, cube), Tail(cubes))

\* Lines 44-88: the body of the outer loop for one observation.
AddObservation(acc, obs) ==
    IF ~Truthy(obs) \/ ~TypeofObject(obs) THEN acc
    ELSE LET cubeArray == Or(Get(obs, "Cube"), Get(obs, "cube"))
         IN IF Truthy(cubeArray)
            THEN AddCubes(acc, IF cubeArray.t = "array" THEN cubeArray.a
                               ELSE <<cubeArray>>)
            ELSE AddCandidate(acc, obs)

RECURSIVE AddObservations(_, _)
AddObservations(acc, obsList) ==
    IF obsList = <<>> THEN acc
    ELSE AddObservations(AddObservation(acc, Head(obsList)), Tail(obsList))

\* Insertion of p into a list sorted by the comparator, after every element
\* that does not compare greater (Array.prototype.sort is stable).
RECURSIVE InsertByDate(_, _)
InsertByDate(sorted, p) ==
    IF sorted = <<>> THEN <<p>>
    ELSE IF LocaleCompare(Head(sorted).date, p.date) > 0 THEN <<p>> \o sorted
    ELSE <<Head(sorted)>> \o InsertByDate(Tail(sorted), p)

\* points.sort((a, b) => a.date.localeCompare(b.date))
RECURSIVE SortByDate(_)
SortByDate(ps) ==
    IF ps = <<>> THEN <<>>
    ELSE InsertByDate(SortByDate(SubSeq(ps, 1, Len(ps) - 1)), ps[Len(ps)])

\* Mutant: the trailing sort is left out.
ParseDataPointsUnsorted(obsList) == AddObservations(EmptyAcc, obsList).points

parseDataPoints(obsList) == SortByDate(AddObservations(EmptyAcc, obsList).points)

(***************************************************************************)
(* getChangesOnly(points)                                                  *)
(***************************************************************************)
\* Lines 103-107: the loop from index i on, changes being the accumulator.
RECURSIVE ChangesLoop(_, _, _)
ChangesLoop(ps, i, changes) ==
    IF i > Len(ps) THEN changes
    ELSE IF StrictNotEqual(ps[i].value, ps[i - 1].value)
         THEN ChangesLoop(ps, i + 1, Append(changes, ps[i]))
         ELSE ChangesLoop(ps, i + 1, changes)

\* Mutant: each point is compared with the first point of the series.
RECURSIVE ChangesLoopAgainstFirst(_, _, _)
ChangesLoopAgainstFirst(ps, i, changes) ==
    IF i > Len(ps) THEN changes
    ELSE IF StrictNotEqual(ps[i].value, ps[1].value)
         THEN ChangesLoopAgainstFirst(ps, i + 1, Append(changes, ps[i]))
         ELSE ChangesLoopAgainstFirst(ps, i + 1, changes)

GetChangesOnlyAgainstFirst(ps) ==
    IF Len(ps) = 0 THEN <<>> ELSE ChangesLoopAgainstFirst(ps, 2, <<ps[1]>>)

getChangesOnly(ps) ==
    IF Len(ps) = 0 THEN <<>> ELSE ChangesLoop(ps, 2, <<ps[1]>>)

(***************************************************************************)
(* findCubesRecursive(obj, depth)                                          *)
(***************************************************************************)
\* Lines 119-126 and 127-134: what one key contributes to cubes.
CubesUnder(obj, k) ==
    LET cube == Get(obj, k)
    IN IF ~Truthy(cube) THEN <<>>
       ELSE IF cube.t = "array" THEN cube.a
       ELSE <<cube>>

\* The property values a for ... in loop over obj visits, in its order:
\* the values of an object's keys, the elements of an array.
OwnValues(obj) ==
    IF obj.t = "object" THEN [i \in 1..Len(obj.m) |-> obj.m[i][2]]
    ELSE IF obj.t = "array" THEN obj.a
    ELSE <<>>

\* Line 114: the deepest level findCubesRecursive still searches.
MaxDepth == 5

RECURSIVE findCubesRecursive(_, _)
\* Lines 137-145: the loop over the values from index i on.
RECURSIVE NestedCubes(_, _, _)
NestedCubes(values, i, depth) ==
    IF i > Len(values) THEN <<>>
    ELSE LET value == values[i]
         IN IF Truthy(value) /\ TypeofObject(value) /\ value.t # "array"
            THEN findCubesRecursive(value, depth + 1)
                     \o NestedCubes(values, i + 1, depth)
            ELSE NestedCubes(values, i + 1, depth)

findCubesRecursive(obj, depth) ==
    IF depth > MaxDepth THEN <<>>
    ELSE CubesUnder(obj, "Cube") \o CubesUnder(obj, "cube")
             \o NestedCubes(OwnValues(obj), 1, depth)

(***************************************************************************)
(* findObservations(parsed)                                                *)
(***************************************************************************)
\* Mutant: the test is typeof alone, which null passes.
IsRecordTypeofOnly(v) == TypeofObject(v)

\* v is usable as a record: `v && typeof v === 'object'`
IsRecord(v) == Truthy(v) /\ TypeofObject(v)

\* Array.isArray(v) ? v : [v]
AsArray(v) == IF v.t = "array" THEN v ELSE Arr(<<v>>)

\* Lines 174-189: the message / DataSet / Series / Obs chain of the envelope;
\* Undefined when the chain breaks.
ObsOfEnvelope(env) ==
    LET message == Or(Get(env, "message"), Get(env, "Message"))
    IN IF ~IsRecord(message) THEN Undefined
       ELSE LET dataset == Or(Or(Or(Get(message, "DataSet"), Get(message, "dataset")),
                                 Get(message, "DataSet")), Get(message, "dataSet"))
            IN IF ~IsRecord(dataset) THEN Undefined
               ELSE LET series == Or(Or(Or(Get(dataset, "Series"), Get(dataset, "series")),
                                        Get(dataset, "Series")), Get(dataset, "series"))
                    IN IF ~IsRecord(series) THEN Undefined
                       ELSE Or(Or(Or(Get(series, "Obs"), Get(series, "obs")),
                                  Get(series, "Obs")), Get(series, "obs"))

\* Lines 192-202: what is tried once the envelope gave nothing.
FromRoot(obj) ==
    IF Truthy(Get(obj, "Cube")) /\ Get(obj, "Cube").t = "array" THEN Get(obj, "Cube")
    ELSE IF Truthy(Get(obj, "cube")) /\ Get(obj, "cube").t = "array" THEN Get(obj, "cube")
    ELSE LET recursiveCubes == findCubesRecursive(obj, 0)
         IN IF Len(recursiveCubes) > 0 THEN Arr(recursiveCubes) ELSE Null

\* Mutant: the recursive search of the envelope runs before the direct test
\* of its Cube field.
FindObservationsSearchFirst(doc) ==
    IF ~Truthy(doc) \/ ~TypeofObject(doc) THEN Null
    ELSE LET envelope == Or(Get(doc, "Envelope"), Get(doc, "envelope"))
         IN IF IsRecord(envelope)
            THEN LET cube == Or(Get(envelope, "Cube"), Get(envelope, "cube"))
                     recursiveCubes == findCubesRecursive(envelope, 0)
                     obs == ObsOfEnvelope(envelope)
                 IN IF Len(recursiveCubes) > 0 THEN Arr(recursiveCubes)
                    ELSE IF Truthy(cube) THEN AsArray(cube)
                    ELSE IF Truthy(obs) THEN AsArray(obs)
                    ELSE FromRoot(doc)
            ELSE FromRoot(doc)

findObservations(doc) ==
    IF ~Truthy(doc) \/ ~TypeofObject(doc) THEN Null
    ELSE LET envelope == Or(Get(doc, "Envelope"), Get(doc, "envelope"))
         IN IF IsRecord(envelope)
            THEN LET cube == Or(Get(envelope, "Cube"), Get(envelope, "cube"))
                     recursiveCubes == findCubesRecursive(envelope, 0)
                     obs == ObsOfEnvelope(envelope)
                 IN IF Truthy(cube) THEN AsArray(cube)
                    ELSE IF Len(recursiveCubes) > 0 THEN Arr(recursiveCubes)
                    ELSE IF Truthy(obs) THEN AsArray(obs)
                    ELSE FromRoot(doc)
            ELSE FromRoot(doc)

(***************************************************************************)
(* TypeErrors: which property reads of the normalizer raise                *)
(***************************************************************************)
\* Reading a property of undefined or of null raises a TypeError; a read
\* of any other value yields a value.
ReadThrows(base) == base.t \in {"undefined", "null"}

\* extractValue: line 19 returns before the reads of lines 24 and 30.
extractValueThrows(n, k) == ~(~Truthy(n) \/ ~TypeofObject(n)) /\ ReadThrows(n)

\* The three extractValue calls parseDataPoints makes on a candidate.
CandidateThrows(cube) ==
    \/ extractValueThrows(cube, "TIME_PERIOD")
    \/ extractValueThrows(cube, "TIME")
    \/ extractValueThrows(cube, "OBS_VALUE")

\* parseDataPoints: the reads of line 49 on an observation that passed line
\* 44, the calls of lines 58-59 on a cube that passed line 55, and the calls
\* of lines 75-76.
parseDataPointsThrows(obsList) ==
    \E i \in 1..Len(obsList) :
        LET obs == obsList[i]
            cubeArray == Or(Get(obs, "Cube"), Get(obs, "cube"))
            cubes == AsArray(cubeArray).a
        IN /\ ~(~Truthy(obs) \/ ~TypeofObject(obs))
           /\ \/ ReadThrows(obs)
              \/ IF Truthy(cubeArray)
                 THEN \E j \in 1..Len(cubes) :
                          /\ ~(~Truthy(cubes[j]) \/ ~TypeofObject(cubes[j]))
                          /\ CandidateThrows(cubes[j])
                 ELSE CandidateThrows(obs)

\* findCubesRecursive: the reads of lines 119 and 127 on its argument, and
\* the calls of line 140 on the values that passed line 139.
RECURSIVE findCubesRecursiveThrows(_, _)
findCubesRecursiveThrows(obj, depth) ==
    IF depth > MaxDepth THEN FALSE
    ELSE \/ ReadThrows(obj)
         \/ \E i \in 1..Len(OwnValues(obj)) :
                LET value == OwnValues(obj)[i]
                IN /\ Truthy(value) /\ TypeofObject(value) /\ value.t # "array"
                   /\ findCubesRecursiveThrows(value, depth + 1)

\* Lines 174-189: the reads on message, dataset and series, each behind its
\* test.
ObsOfEnvelopeThrows(env) ==
    LET message == Or(Get(env, "message"), Get(env, "Message"))
        dataset == Or(Or(Or(Get(message, "DataSet"), Get(message, "dataset")),
                         Get(message, "DataSet")), Get(message, "dataSet"))
        series == Or(Or(Or(Get(dataset, "Series"), Get(dataset, "series")),
                        Get(dataset, "Series")), Get(dataset, "series"))
    IN /\ IsRecord(message)
       /\ \/ ReadThrows(message)
          \/ /\ IsRecord(dataset)
             /\ \/ ReadThrows(dataset)
                \/ IsRecord(series) /\ ReadThrows(series)

\* findObservations: the reads of line 157 on the document that passed
\* line 152, of lines 162-189 on the envelope that passed line 158, and the
\* searches of lines 168 and 196.
findObservationsThrows(doc) ==
    IF ~Truthy(doc) \/ ~TypeofObject(doc) THEN FALSE
    ELSE LET envelope == Or(Get(doc, "Envelope"), Get(doc, "envelope"))
             cube == Or(Get(envelope, "Cube"), Get(envelope, "cube"))
             inEnvelope ==
                 /\ IsRecord(envelope)
                 /\ \/ ReadThrows(envelope)
                    \/ /\ ~Truthy(cube)
                       /\ \/ findCubesRecursiveThrows(envelope, 0)
                          \/ /\ Len(findCubesRecursive(envelope, 0)) = 0
                             /\ ObsOfEnvelopeThrows(envelope)
             leftEnvelope ==
                 \/ ~IsRecord(envelope)
                 \/ /\ ~Truthy(cube)
                    /\ Len(findCubesRecursive(envelope, 0)) = 0
                    /\ ~Truthy(ObsOfEnvelope(envelope))
             fromRoot ==
                 /\ ~(Truthy(Get(doc, "Cube")) /\ Get(doc, "Cube").t = "array")
                 /\ ~(Truthy(Get(doc, "cube")) /\ Get(doc, "cube").t = "array")
                 /\ findCubesRecursiveThrows(doc, 0)
         IN ReadThrows(doc) \/ inEnvelope \/ (leftEnvelope /\ fromRoot)

(***************************************************************************)
(* GET: lines 276-323, from the parsed document to the response            *)
(***************************************************************************)
NoObservationsError == "No observations found in the XML data"
NoPointsError == "No valid data points found after parsing observations"
InternalError == "Internal server error processing Bank of England data"

\* Mutant: latest is taken from the front of changesOnly.
LatestOfFirst(changes) == IF Len(changes) > 0 THEN changes[1] ELSE Null

\* latest of line 314
LatestOf(changes) == IF Len(changes) > 0 THEN changes[Len(changes)] ELSE Null

\* Line 279: findObservations gave nothing to parse.
NoObservations(obs) == ~Truthy(obs) \/ Len(obs.a) = 0

\* Line 294: Object.keys(observations[0]) throws on undefined and on null;
\* the catch of line 324 answers 500.
FirstKeysThrow(obs) == obs.a[1].t \in {"undefined", "null"}

\* What parser.parse gives when it throws.
Throws == [t |-> "throws"]

\* Line 239: the shortest trimmed body that is taken for a document.
MinLength == 100

\* response.ok of the Fetch standard: a status from 200 to 299.
ResponseOk(r) == r.status \in 200..299

FetchError(r) ==
    "Failed to fetch data from Bank of England (Status: " \o ToString(r.status) \o ")"
HtmlError == "Received HTML instead of XML from Bank of England"
EmptyError == "Received empty or invalid XML from Bank of England"
ParseError == "Failed to parse XML from Bank of England"

\* Mutant: the length of the body is tested before its being HTML.
UpstreamFailureLengthFirst(r) ==
    IF ~ResponseOk(r) THEN FetchError(r)
    ELSE IF r.length < MinLength THEN EmptyError
    ELSE IF r.html THEN HtmlError
    ELSE IF r.parse = Throws THEN ParseError
    ELSE ""

\* Lines 216-268: the error field of the 502 answer to the response r of the
\* Bank, "" when the body was parsed. Of the body r holds what the handler
\* tests: html, whether it starts with '<!DOCTYPE html' or includes '<html';
\* length, that of the trimmed text; parse, what parser.parse makes of it.
UpstreamFailure(r) ==
    IF ~ResponseOk(r) THEN FetchError(r)
    ELSE IF r.html THEN HtmlError
    ELSE IF r.length < MinLength THEN EmptyError
    ELSE IF r.parse = Throws THEN ParseError
    ELSE ""

(***************************************************************************)
(* Natural numbers of any size                                             *)
(*                                                                         *)
(* The significand of a double has 53 bits and a product of two has 106,   *)
(* so the arithmetic below works on limbs of LimbBits bits, least          *)
(* significant first, without a leading zero limb; <<>> is 0.              *)
(***************************************************************************)
\* The element of a set of one element.  An operand is computed once,
\* before the operation that takes it, as JavaScript computes it: the
\* operations below name their operands this way.
The(S) == CHOOSE v \in S : TRUE

LimbBits == 14

\* 2^k
RECURSIVE TwoTo(_)
TwoTo(k) ==
    IF k = 0 THEN 1
    ELSE LET h == TwoTo(k \div 2) IN IF k % 2 = 0 THEN h * h ELSE 2 * h * h

\* The powers of two up to the base, by their exponents
PowerOfTwo == [k \in 0..LimbBits |-> TwoTo(k)]

Base == PowerOfTwo[LimbBits]

RECURSIVE BigTrim(_)
BigTrim(a) ==
    IF a = <<>> THEN <<>>
    ELSE IF a[Len(a)] = 0 THEN BigTrim(SubSeq(a, 1, Len(a) - 1))
    ELSE a

RECURSIVE BigOf(_)
BigOf(n) == IF n = 0 THEN <<>> ELSE <<n % Base>> \o BigOf(n \div Base)

Limb(a, i) == IF i <= Len(a) THEN a[i] ELSE 0

\* The limbs of carry + the sum of the c[i] * Base^(i - 1), for integers
\* c[i] of either sign: Len(c) limbs, and after them what is carried out.
\* The lower half is settled first and hands its carry to the upper half.
RECURSIVE Carry(_, _)
Carry(c, carry) ==
    IF Len(c) = 1 THEN <<(c[1] + carry) % Base, (c[1] + carry) \div Base>>
    ELSE LET h == Len(c) \div 2
             low == Carry(SubSeq(c, 1, h), carry)
             high == Carry(SubSeq(c, h + 1, Len(c)), low[h + 1])
         IN SubSeq(low, 1, h) \o high

BigAdd(a, b) ==
    LET n == IF Len(a) < Len(b) THEN Len(b) ELSE Len(a)
    IN IF n = 0 THEN <<>>
       ELSE BigTrim(Carry([i \in 1..n |-> Limb(a, i) + Limb(b, i)], 0))

\* a - b for a >= b
BigSub(a, b) ==
    IF a = <<>> THEN <<>>
    ELSE BigTrim(Carry([i \in 1..Len(a) |-> a[i] - Limb(b, i)], 0))

\* -1, 0, 1 as a < b, a = b, a > b
BigCmp(a, b) ==
    IF Len(a) < Len(b) THEN -1
    ELSE IF Len(a) > Len(b) THEN 1
    ELSE LET differ == {i \in 1..Len(a) : a[i] # b[i]}
         IN IF differ = {} THEN 0
            ELSE LET top == CHOOSE i \in differ : \A j \in differ : j <= i
                 IN IF a[top] < b[top] THEN -1 ELSE 1

\* a * s for 0 <= s < Base
BigMulSmall(a, s) ==
    IF s = 0 \/ a = <<>> THEN <<>>
    ELSE BigTrim(Carry([i \in 1..Len(a) |-> a[i] * s], 0))

\* The sum of the products a[i] * b[k + 1 - i] for i from lo to hi
RECURSIVE Column(_, _, _, _, _)
Column(a, b, k, lo, hi) ==
    IF lo > hi THEN 0
    ELSE IF lo = hi THEN a[lo] * b[k + 1 - lo]
    ELSE Column(a, b, k, lo, (lo + hi) \div 2)
             + Column(a, b, k, (lo + hi) \div 2 + 1, hi)

\* a * b, by columns; a column of 7 products of limbs is below 2^31, and
\* no product taken here has two factors of more than 7 limbs
BigMul(a, b) ==
    IF a = <<>> \/ b = <<>> THEN <<>>
    ELSE BigTrim(Carry([k \in 1..(Len(a) + Len(b) - 1) |->
                           Column(a, b, k,
                                  IF k + 1 - Len(b) > 1 THEN k + 1 - Len(b) ELSE 1,
                                  IF k < Len(a) THEN k ELSE Len(a))], 0))

\* number of bits of 0 <= n < Base
SmallBits(n) == Cardinality({k \in 0..(LimbBits - 1) : PowerOfTwo[k] <= n})

\* number of bits of a
BitLen(a) == IF a = <<>> THEN 0 ELSE LimbBits * (Len(a) - 1) + SmallBits(a[Len(a)])

Zeros(n) == [i \in 1..n |-> 0]

\* a * 2^k
ShiftLeft(a, k) ==
    IF a = <<>> THEN <<>>
    ELSE Zeros(k \div LimbBits) \o BigMulSmall(a, PowerOfTwo[k % LimbBits])

\* floor(a / 2^k): every limb takes its upper bits and the lower bits of
\* the limb above it
ShiftRight(a, k) ==
    LET q == k \div LimbBits
        r == k % LimbBits
    IN IF q >= Len(a) THEN <<>>
       ELSE BigTrim([i \in 1..(Len(a) - q) |->
                        (a[i + q] \div PowerOfTwo[r])
                            + (Limb(a, i + q + 1) % PowerOfTwo[r])
                                  * PowerOfTwo[LimbBits - r]])

IsOdd(a) == a # <<>> /\ a[1] % 2 = 1

\* The largest q with q * d <= r, searched downwards from an estimate that
\* is not below it.
RECURSIVE FixDigit(_, _, _)
FixDigit(r, d, q) ==
    IF BigCmp(BigMulSmall(d, q), r) = 1 THEN FixDigit(r, d, q - 1) ELSE q

\* One digit of a long division: floor(r / d) for r < d * Base, estimated
\* from the leading limbs; the leading limb of d is at least Base / 2.
QuotientDigit(r, d) ==
    FixDigit(r, d, The({IF est >= Base THEN Base - 1 ELSE est :
                           est \in {(Limb(r, Len(d) + 1) * Base + Limb(r, Len(d)))
                                       \div d[Len(d)]}}))

\* Long division of the limbs a[1..i], taken one by one below the
\* remainder r, after the quotient limbs q found so far:
\* <<quotient, remainder>>.
RECURSIVE DivFrom(_, _, _, _, _)
DivFrom(a, d, i, q, r) ==
    IF i = 0 THEN <<q, r>>
    ELSE The({DivFrom(a, d, i - 1, <<cd[2]>> \o q,
                      BigSub(cd[1], BigMulSmall(d, cd[2]))) :
                 cd \in {<<cur, QuotientDigit(cur, d)>> :
                            cur \in {BigTrim(<<a[i]>> \o r)}}})

\* <<floor(a / d), a % d>> for d > 0
BigDivMod(a, d) ==
    The({<<BigTrim(qr[1]), ShiftRight(qr[2], s)>> :
            <<s, qr>> \in {<<s, DivFrom(as, ShiftLeft(d, s), Len(as), <<>>, <<>>)>> :
                              <<s, as>> \in {<<s, ShiftLeft(a, s)>> :
                                    s \in {LimbBits - SmallBits(d[Len(d)])}}}})

(***************************************************************************)
(* JavaScript numbers of the calculators: IEEE 754 doubles                 *)
(*                                                                         *)
(* A double is NaN or (-1)^neg * m * 2^e with m = 0 or 2^52 <= m < 2^53.   *)
(* Infinities, subnormal numbers and the sign of zero are left out: the    *)
(* inputs keep every result far inside the exponent range.                 *)
(***************************************************************************)
Precision == 53

FNaN == [t |-> "double", nan |-> TRUE, neg |-> FALSE, m |-> <<>>, e |-> 0]
Float(neg, m, e) == [t |-> "double", nan |-> FALSE, neg |-> neg, m |-> m, e |-> e]
FZero == Float(FALSE, <<>>, 0)

\* The Precision leading bits q of a number, rounded to even by the
\* comparison c of what was cut off with half a unit of q
RoundQuotient(neg, q, c, e, sticky) ==
    The({IF BitLen(q1) > Precision THEN Float(neg, ShiftRight(q1, 1), e + 1)
         ELSE Float(neg, q1, e) :
            q1 \in {IF (IF IsOdd(q) THEN c # -1 ELSE c = 1 \/ (c = 0 /\ sticky))
                    THEN BigAdd(q, <<1>>) ELSE q}})

\* n of len bits, len > Precision, rounded to Precision bits
RoundLong(neg, n, len, e, sticky) ==
    The({RoundQuotient(neg, q, c, e + (len - Precision), sticky) :
            <<q, c>> \in {<<q, BigCmp(BigSub(n, ShiftLeft(q, len - Precision)),
                                     ShiftLeft(<<1>>, len - Precision - 1))>> :
                              q \in {ShiftRight(n, len - Precision)}}})

\* n of len bits at exponent e as a double
RoundBits(neg, n, len, e, sticky) ==
    IF n = <<>> THEN FZero
    ELSE IF len <= Precision
         THEN Float(neg, ShiftLeft(n, Precision - len), e - (Precision - len))
    ELSE RoundLong(neg, n, len, e, sticky)

\* The double nearest to (-1)^neg * n * 2^e, ties to even; sticky says that
\* the exact value lies above n * 2^e by less than 2^e and more than 0
\* (then n has more than Precision bits).
RoundToDouble(neg, n, e, sticky) ==
    The({RoundBits(neg, m, BitLen(m), e, sticky) : m \in {n}})

\* The double of an integer literal: an integer below 2^31 has fewer than
\* Precision bits
FromInt(n) ==
    The({IF m = <<>> THEN FZero
         ELSE Float(n < 0, ShiftLeft(m, Precision - BitLen(m)), BitLen(m) - Precision) :
            m \in {BigOf(IF n < 0 THEN -n ELSE n)}})

IsZero(x) == ~x.nan /\ x.m = <<>>

\* isNaN(x)
IsNaN(x) == x.nan

\* -1, 0, 1 for the magnitudes of two non-zero doubles
CmpMagnitude(x, y) ==
    IF x.e < y.e THEN -1 ELSE IF x.e > y.e THEN 1 ELSE BigCmp(x.m, y.m)

\* -1, 0, 1 for two doubles that are not NaN
Cmp(x, y) ==
    IF IsZero(x) /\ IsZero(y) THEN 0
    ELSE IF IsZero(x) THEN (IF y.neg THEN 1 ELSE -1)
    ELSE IF IsZero(y) THEN (IF x.neg THEN -1 ELSE 1)
    ELSE IF x.neg # y.neg THEN (IF x.neg THEN -1 ELSE 1)
    ELSE IF x.neg THEN -CmpMagnitude(x, y) ELSE CmpMagnitude(x, y)

\* x < y, x <= y, x > y, x >= y, x === y: all false when NaN takes part
FLess(x, y) == ~x.nan /\ ~y.nan /\ Cmp(x, y) = -1
FLessEq(x, y) == ~x.nan /\ ~y.nan /\ Cmp(x, y) # 1
FGreater(x, y) == FLess(y, x)
FGreaterEq(x, y) == FLessEq(y, x)
FEq(x, y) == ~x.nan /\ ~y.nan /\ Cmp(x, y) = 0

FNeg(x) == IF x.nan \/ IsZero(x) THEN x ELSE Float(~x.neg, x.m, x.e)

\* a * b for operands already computed
Times(x, y) ==
    IF x.nan \/ y.nan THEN FNaN
    ELSE IF IsZero(x) \/ IsZero(y) THEN FZero
    ELSE RoundToDouble(x.neg # y.neg, BigMul(x.m, y.m), x.e + y.e, FALSE)

\* x * y
FMul(x, y) == The({Times(a, b) : a \in {x}, b \in {y}})

\* The sum of two non-zero doubles whose significands a and b are aligned
\* at the exponent e and compare as c
AlignedSum(x, y, a, b, c, e) ==
    IF x.neg # y.neg /\ c = 0 THEN FZero
    ELSE RoundToDouble(IF c = -1 THEN y.neg ELSE x.neg,
                       IF x.neg = y.neg THEN BigAdd(a, b)
                       ELSE IF c = 1 THEN BigSub(a, b) ELSE BigSub(b, a),
                       e, FALSE)

\* a + b for operands already computed
Plus(x, y) ==
    IF x.nan \/ y.nan THEN FNaN
    ELSE IF IsZero(x) THEN y
    ELSE IF IsZero(y) THEN x
    ELSE LET e == IF x.e < y.e THEN x.e ELSE y.e
         IN The({AlignedSum(x, y, a, b, BigCmp(a, b), e) :
                    a \in {ShiftLeft(x.m, x.e - e)}, b \in {ShiftLeft(y.m, y.e - e)}})

\* x + y
FAdd(x, y) == The({Plus(a, b) : a \in {x}, b \in {y}})

\* x - y
FSub(x, y) == The({Plus(a, FNeg(b)) : a \in {x}, b \in {y}})

\* a / b for operands already computed
Over(x, y) ==
    IF x.nan \/ y.nan THEN FNaN
    ELSE IF IsZero(x) THEN FZero
    ELSE The({RoundToDouble(x.neg # y.neg, qr[1], x.e - y.e - (Precision + 3),
                            qr[2] # <<>>) :
                 qr \in {BigDivMod(ShiftLeft(x.m, Precision + 3), y.m)}})

\* x / y for a divisor that is neither zero nor NaN, which is all the
\* calculators divide by
FDiv(x, y) == The({Over(a, b) : a \in {x}, b \in {y}})

RECURSIVE TenTo(_)
TenTo(k) == IF k = 0 THEN 1 ELSE 10 * TenTo(k - 1)

\* The double of the decimal numeral n / 10^k, as a literal of the source
\* or parseFloat of a form field gives it
Decimal(n, k) == FDiv(FromInt(n), FromInt(TenTo(k)))

\* x || 0 for a number x
OrZero(x) == IF x.nan \/ IsZero(x) THEN FZero ELSE x

\* The value of a double that is a natural number below Base * Base
NatOf(x) ==
    IF IsZero(x) THEN 0
    ELSE LET n == ShiftRight(x.m, -x.e) IN Limb(n, 1) + Base * Limb(n, 2)

\* Math.pow is implementation-approximated.  It is taken as the power
\* computed by repeated squaring on significands of WideBits bits and
\* rounded to a double once, at the end.
WideBits == 98

\* The significand p of len bits at exponent e cut to WideBits bits:
\* <<significand, exponent, something was cut off>>
CutBits(p, len, e, inexact) ==
    IF len <= WideBits THEN <<p, e, inexact>>
    ELSE The({<<q, e + (len - WideBits), inexact \/ ShiftLeft(q, len - WideBits) # p>> :
                 q \in {ShiftRight(p, len - WideBits)}})

\* The significand p at exponent e cut to WideBits bits
Cut(p, e, inexact) == The({CutBits(q, BitLen(q), e, inexact) : q \in {p}})

\* sq times x when odd
TimesWhenOdd(sq, x, odd) ==
    IF odd THEN Cut(BigMul(sq[1], x.m), sq[2] + x.e, sq[3]) ELSE sq

\* h squared, times x when odd
SquareStep(h, x, odd) ==
    The({TimesWhenOdd(sq, x, odd) : sq \in {Cut(BigMul(h[1], h[1]), 2 * h[2], h[3])}})

\* x^n for n >= 1 by squaring
RECURSIVE PowWide(_, _)
PowWide(x, n) ==
    IF n = 1 THEN <<x.m, x.e, FALSE>>
    ELSE The({SquareStep(h, x, n % 2 = 1) : h \in {PowWide(x, n \div 2)}})

\* The power for operands already computed
Power(x, y) ==
    IF y.nan THEN FNaN
    ELSE IF IsZero(y) THEN FromInt(1)
    ELSE IF x.nan THEN FNaN
    ELSE IF IsZero(x) THEN FZero
    ELSE The({RoundToDouble(x.neg /\ n % 2 = 1, w[1], w[2], w[3]) :
                 <<n, w>> \in {<<n, PowWide(x, n)>> : n \in {NatOf(y)}}})

\* Math.pow(x, y) for y a natural number; the calculators raise
\* 1 + monthlyRate to a number of months.
MathPow(x, y) == The({Power(a, b) : a \in {x}, b \in {y}})

(***************************************************************************)
(* src/src/lib/finance.ts                                                  *)
(***************************************************************************)
One == FromInt(1)

\* Mutant: the annual rate is taken for the monthly rate.
MonthlyRateOfYear(annualRatePct) == FDiv(annualRatePct, FromInt(100))

\* annualRatePct / 100 / 12
MonthlyRate(annualRatePct) == FDiv(FDiv(annualRatePct, FromInt(100)), FromInt(12))

\* Lines 43-47: the payment from the numerator and the denominator
PaymentOf(numerator, denominator) ==
    IF IsZero(denominator) THEN FZero ELSE FDiv(numerator, denominator)

\* Lines 40-41: the numerator and the denominator of the annuity formula
AmortisedFormula(principal, monthlyRate, numMonths) ==
    The({PaymentOf(numerator, denominator) :
            numerator \in {FMul(FMul(principal, monthlyRate),
                               MathPow(FAdd(One, monthlyRate), numMonths))},
            denominator \in {FSub(MathPow(FAdd(One, monthlyRate), numMonths), One)}})

\* Lines 38-39: the monthly rate and the number of months, computed once
AmortisedOf(principal, rate, n) ==
    The({AmortisedFormula(principal, monthlyRate, numMonths) :
            monthlyRate \in {rate}, numMonths \in {n}})

\* Mutant: a negative or NaN argument is not guarded.
MonthlyPaymentAmortisedUnguarded(principal, annualRatePct, years) ==
    IF IsZero(principal) \/ IsZero(years) THEN FZero
    ELSE IF IsZero(annualRatePct) THEN FDiv(principal, FMul(years, FromInt(12)))
    ELSE AmortisedOf(principal, MonthlyRate(annualRatePct), FMul(years, FromInt(12)))

\* Mutant: the zero-rate case divides by the years, not by the months.
MonthlyPaymentAmortisedPerYear(principal, annualRatePct, years) ==
    IF FLess(principal, FZero) \/ FLess(annualRatePct, FZero) \/ FLess(years, FZero) THEN FZero
    ELSE IF IsNaN(principal) \/ IsNaN(annualRatePct) \/ IsNaN(years) THEN FZero
    ELSE IF IsZero(principal) \/ IsZero(years) THEN FZero
    ELSE IF IsZero(annualRatePct) THEN FDiv(principal, years)
    ELSE AmortisedOf(principal, MonthlyRate(annualRatePct), FMul(years, FromInt(12)))

\* Lines 17-48
monthlyPaymentAmortised(principal, annualRatePct, years) ==
    IF FLess(principal, FZero) \/ FLess(annualRatePct, FZero) \/ FLess(years, FZero) THEN FZero
    ELSE IF IsNaN(principal) \/ IsNaN(annualRatePct) \/ IsNaN(years) THEN FZero
    ELSE IF IsZero(principal) \/ IsZero(years) THEN FZero
    ELSE IF IsZero(annualRatePct) THEN FDiv(principal, FMul(years, FromInt(12)))
    ELSE AmortisedOf(principal, MonthlyRate(annualRatePct), FMul(years, FromInt(12)))

\* Mutant: the product is divided by 1200 in one step.
MonthlyPaymentInterestOnlyBy1200(principal, annualRatePct) ==
    IF FLess(principal, FZero) \/ FLess(annualRatePct, FZero) THEN FZero
    ELSE IF IsNaN(principal) \/ IsNaN(annualRatePct) THEN FZero
    ELSE IF IsZero(principal) THEN FZero
    ELSE FDiv(FMul(principal, annualRatePct), FromInt(1200))

\* Lines 59-76
monthlyPaymentInterestOnly(principal, annualRatePct) ==
    IF FLess(principal, FZero) \/ FLess(annualRatePct, FZero) THEN FZero
    ELSE IF IsNaN(principal) \/ IsNaN(annualRatePct) THEN FZero
    ELSE IF IsZero(principal) THEN FZero
    ELSE FMul(principal, MonthlyRate(annualRatePct))

\* Mutant: bad arguments give 0, as they do for the payment functions.
SavingsCompoundMonthlyZeroDefault(balance, annualRatePct, nMonths) ==
    IF FLess(balance, FZero) \/ FLess(annualRatePct, FZero) \/ FLess(nMonths, FZero) THEN FZero
    ELSE IF IsNaN(balance) \/ IsNaN(annualRatePct) \/ IsNaN(nMonths) THEN FZero
    ELSE IF IsZero(nMonths) THEN balance
    ELSE FMul(balance, MathPow(FAdd(One, MonthlyRate(annualRatePct)), nMonths))

\* Lines 88-106
savingsCompoundMonthly(balance, annualRatePct, nMonths) ==
    IF FLess(balance, FZero) \/ FLess(annualRatePct, FZero) \/ FLess(nMonths, FZero) THEN balance
    ELSE IF IsNaN(balance) \/ IsNaN(annualRatePct) \/ IsNaN(nMonths) THEN balance
    ELSE IF IsZero(nMonths) THEN balance
    ELSE FMul(balance, MathPow(FAdd(One, MonthlyRate(annualRatePct)), nMonths))

\* Lines 118-136
savingsSimple(balance, annualRatePct, nMonths) ==
    IF FLess(balance, FZero) \/ FLess(annualRatePct, FZero) \/ FLess(nMonths, FZero) THEN balance
    ELSE IF IsNaN(balance) \/ IsNaN(annualRatePct) \/ IsNaN(nMonths) THEN balance
    ELSE IF IsZero(nMonths) THEN balance
    ELSE FMul(balance, FAdd(One, FMul(MonthlyRate(annualRatePct), nMonths)))

(***************************************************************************)
(* src/src/app/bank-rate/ImpactCalculators.tsx, lines 294-338: the credit  *)
(* card branch of loanResults                                              *)
(***************************************************************************)
\* Line 313
maxMonths == 600

\* The literal 0.01 of line 315
Cent == Decimal(1, 2)

\* The returned record
Result(m, interest, stuck) ==
    [monthsToRepay |-> m, totalInterest |-> interest, willNotRepay |-> stuck]

\* Mutant: the loop runs on whatever the month counter says.
LoopContinuesUncapped(balance, m) == FGreater(balance, Cent)

\* Line 315: the condition of the while loop
LoopContinues(balance, m) == FGreater(balance, Cent) /\ m < maxMonths

\* Mutant: the month's interest is left out of what the early return reports.
InsufficientResultBefore(interestBefore, monthlyInterest) ==
    Result(Null, interestBefore, TRUE)

\* Lines 319-326: the return taken when the repayment does not exceed the
\* month's interest
InsufficientResult(interestBefore, monthlyInterest) ==
    Result(Null, FAdd(interestBefore, monthlyInterest), TRUE)

\* Mutant: the degenerate inputs run through the loop like any other.
DegenerateNever(balance, monthlyRepayment) == FALSE

\* Line 300
Degenerate(balance, monthlyRepayment) == IsZero(balance) \/ IsZero(monthlyRepayment)

\* Mutant: the month counter is returned whatever it is.
FinalResultUncapped(m, interest) == Result(Num(m), interest, FALSE)

\* Lines 332-337: the return after the loop
FinalResult(m, interest) ==
    Result(IF m >= maxMonths THEN Null ELSE Num(m), interest, m >= maxMonths)

(***************************************************************************)
(* Values of the variables a run does not use                              *)
(***************************************************************************)
FunctionNames == {"monthlyPaymentAmortised", "monthlyPaymentInterestOnly",
                  "savingsCompoundMonthly", "savingsSimple"}

NothingReturned == [f \in FunctionNames |-> Undefined]

FeedIdle ==
    /\ parsed = Undefined
    /\ observations = Null
    /\ points = <<>>
    /\ changesOnly = <<>>
    /\ latest = Null
    /\ status = 0
    /\ errorText = ""
    /\ response = Null
    /\ node = Undefined
    /\ key = ""
    /\ extracted = Undefined

CalcIdle ==
    /\ amount = FZero
    /\ ratePct = FZero
    /\ term = FZero
    /\ returned = NothingReturned

CardIdle ==
    /\ loan = [balance |-> FZero, apr |-> FZero, monthlyRepayment |-> FZero]
    /\ currentBalance = FZero
    /\ totalInterest = FZero
    /\ months = 0
    /\ loanResults = Null

(***************************************************************************)
(* src/src/app/bank-rate/ImpactCalculators.tsx, lines 12-88 and 159-294:   *)
(* the inputs and the three useMemo computations.  A numeric form field is *)
(* held by the number parseFloat makes of its text.                        *)
(***************************************************************************)
\* Line 12: type ScenarioChange
ScenarioChanges ==
    {FNeg(Decimal(5, 1)), FNeg(Decimal(25, 2)), FZero, Decimal(25, 2), Decimal(5, 1)}

\* Line 11: type TabType
TabTypes == {"mortgage", "savings", "loan"}

\* Lines 59-88
defaultInputs ==
    [scenarioChange |-> FZero,
     activeTab |-> "mortgage",
     mortgage |-> [loanAmount |-> FromInt(250000), termYears |-> FromInt(25),
                   repaymentType |-> "repayment", lenderMargin |-> Decimal(150, 2),
                   currentFixedRate |-> FNaN],
     savings |-> [balance |-> FromInt(10000), savingsMode |-> "margin",
                  margin |-> Decimal(50, 2), fixedAPY |-> FromInt(4),
                  timeMonths |-> FromInt(12), interestType |-> "compound"],
     loan |-> [mode |-> "personal-loan", loanAmount |-> FromInt(10000),
               termYears |-> FromInt(5), rateMode |-> "margin", margin |-> FromInt(3),
               fixedAPR |-> FromInt(8), balance |-> FromInt(5000), apr |-> FromInt(18),
               monthlyRepayment |-> FromInt(200)]]

\* Line 160: latestRate + inputs.scenarioChange
ScenarioRateOf(rate, in) == FAdd(rate, in.scenarioChange)

\* Lines 210-213 and 215-218: the payment of the chosen repayment type
MortgagePayment(repaymentType, loanAmount, rate, termYears) ==
    IF repaymentType = "repayment"
    THEN monthlyPaymentAmortised(loanAmount, rate, termYears)
    ELSE monthlyPaymentInterestOnly(loanAmount, rate)

\* Lines 220-225: parseFloat(currentFixedRate) || null and its payment
PaymentCurrentFixed(repaymentType, loanAmount, currentFixed, termYears) ==
    IF currentFixed.nan \/ IsZero(currentFixed) THEN Null
    ELSE MortgagePayment(repaymentType, loanAmount, currentFixed, termYears)

\* Lines 227-234: the returned record
MortgageRecord(rateNow, rateScenario, paymentNow, paymentScenario, paymentFixed) ==
    [effectiveRateNow |-> rateNow,
     effectiveRateScenario |-> rateScenario,
     paymentNow |-> paymentNow,
     paymentScenario |-> paymentScenario,
     difference |-> FSub(paymentScenario, paymentNow),
     paymentCurrentFixed |-> paymentFixed]

\* Lines 210-225: the payments at the two effective rates
MortgageAt(m, loanAmount, termYears, rateNow, rateScenario) ==
    The({MortgageRecord(rateNow, rateScenario, paymentNow, paymentScenario,
                        PaymentCurrentFixed(m.repaymentType, loanAmount,
                                            m.currentFixedRate, termYears)) :
            paymentNow \in {MortgagePayment(m.repaymentType, loanAmount, rateNow,
                                            termYears)},
            paymentScenario \in {MortgagePayment(m.repaymentType, loanAmount,
                                                 rateScenario, termYears)}})

\* Lines 207-208: the effective rates
MortgageOver(m, loanAmount, termYears, margin, baseRate, scenarioRate) ==
    The({MortgageAt(m, loanAmount, termYears, effectiveRateNow, effectiveRateScenario) :
            effectiveRateNow \in {FAdd(baseRate, margin)},
            effectiveRateScenario \in {FAdd(scenarioRate, margin)}})

\* Lines 200-235: useMemo mortgageResults
MortgageResultsOf(m, baseRate, scenarioRate) ==
    The({MortgageOver(m, loanAmount, termYears, margin, baseRate, scenarioRate) :
            loanAmount \in {OrZero(m.loanAmount)},
            termYears \in {OrZero(m.termYears)},
            margin \in {OrZero(m.lenderMargin)}})

\* Lines 159-160 and 200-235: the mortgage results of the inputs in over
\* the Bank Rate
MortgageResultsFor(in, rate) ==
    The({MortgageResultsOf(in.mortgage, rate, scenarioRate) :
            scenarioRate \in {ScenarioRateOf(rate, in)}})

\* Lines 250-258: the final balance of the chosen interest type
FinalBalance(interestType, balance, annualRate, nMonths) ==
    IF interestType = "compound"
    THEN savingsCompoundMonthly(balance, annualRate, nMonths)
    ELSE savingsSimple(balance, annualRate, nMonths)

\* Lines 260-271: the interest earned and the returned record
SavingsRecord(balance, rateNow, rateScenario, finalNow, finalScenario) ==
    [annualRateNow |-> rateNow,
     annualRateScenario |-> rateScenario,
     finalBalanceNow |-> finalNow,
     finalBalanceScenario |-> finalScenario,
     interestNow |-> FSub(finalNow, balance),
     interestScenario |-> FSub(finalScenario, balance),
     difference |-> FSub(finalScenario, finalNow)]

\* Lines 250-258: the final balances at the two annual rates
SavingsAt(sv, balance, nMonths, rateNow, rateScenario) ==
    The({SavingsRecord(balance, rateNow, rateScenario, finalNow, finalScenario) :
            finalNow \in {FinalBalance(sv.interestType, balance, rateNow, nMonths)},
            finalScenario \in {FinalBalance(sv.interestType, balance, rateScenario,
                                            nMonths)}})

\* Lines 241-248: the rate of the savings mode over a Bank Rate
SavingsRate(sv, rate) ==
    IF sv.savingsMode = "margin" THEN FAdd(rate, OrZero(sv.margin))
    ELSE OrZero(sv.fixedAPY)

\* Lines 238-272: useMemo savingsResults
SavingsResultsOf(sv, baseRate, scenarioRate) ==
    The({SavingsAt(sv, balance, nMonths, rateNow, rateScenario) :
            balance \in {OrZero(sv.balance)},
            nMonths \in {OrZero(sv.timeMonths)},
            rateNow \in {SavingsRate(sv, baseRate)},
            rateScenario \in {SavingsRate(sv, scenarioRate)}})

\* Lines 159-160 and 238-272: the savings results of the inputs in over the
\* Bank Rate
SavingsResultsFor(in, rate) ==
    The({SavingsResultsOf(in.savings, rate, scenarioRate) :
            scenarioRate \in {ScenarioRateOf(rate, in)}})

\* Lines 285-294: the totals and the returned record
PersonalLoanRecord(loanAmount, termYears, annualRate, monthlyPayment, totalPaid) ==
    [mode |-> "personal-loan",
     monthlyPayment |-> monthlyPayment,
     totalInterest |-> FSub(totalPaid, loanAmount),
     totalPaid |-> totalPaid,
     annualRate |-> annualRate]

\* Lines 284-285: the payment and what is paid in all
PersonalLoanAt(loanAmount, termYears, annualRate) ==
    The({PersonalLoanRecord(loanAmount, termYears, annualRate, monthlyPayment,
                            FMul(FMul(monthlyPayment, termYears), FromInt(12))) :
            monthlyPayment \in {monthlyPaymentAmortised(loanAmount, annualRate,
                                                        termYears)}})

\* Lines 279-282: the rate of the rate mode over the Bank Rate
LoanRate(ln, baseRate) ==
    IF ln.rateMode = "margin" THEN FAdd(baseRate, OrZero(ln.margin))
    ELSE OrZero(ln.fixedAPR)

\* Lines 275-294: useMemo loanResults, personal-loan branch
PersonalLoanResultsOf(ln, baseRate) ==
    The({PersonalLoanAt(loanAmount, termYears, annualRate) :
            loanAmount \in {OrZero(ln.loanAmount)},
            termYears \in {OrZero(ln.termYears)},
            annualRate \in {LoanRate(ln, baseRate)}})

PageIdle ==
    /\ latestRate = FZero
    /\ inputs = Null
    /\ activeTab = "mortgage"
    /\ mortgageResults = Null
    /\ savingsResults = Null
    /\ storage = Null
    /\ effects = <<>>
    /\ pending = <<>>
    /\ storedBefore = Null

(***************************************************************************)
(* Inputs                                                                  *)
(***************************************************************************)
MaxPoints == 3   \* point-nodes in a document
MaxNodes == 3    \* raw nodes handed to parseDataPoints
MaxSeries == 4   \* points handed to getChangesOnly

D1 == <<"2", "0", "0", "0", "-", "0", "1", "-", "0", "4">>
D2 == <<"2", "0", "0", "0", "-", "0", "2", "-", "1", "0">>
D3 == <<"2", "0", "0", "1", "-", "1", "1", "-", "0", "8">>
Dates == {D1, D2, D3}

Empty == <<>>
Abc == <<"a", "b", "c">>

\* An object holding the listed fields; a field whose value is Undefined is
\* left out, as a missing attribute or child is.
RECURSIVE Fields(_)
Fields(pairs) ==
    IF pairs = <<>> THEN <<>>
    ELSE IF Head(pairs)[2] = Undefined THEN Fields(Tail(pairs))
    ELSE <<Head(pairs)>> \o Fields(Tail(pairs))

Node(pairs) == Obj(Fields(pairs))

Wrap(k, v) == Obj(<< <<k, v>> >>)

\* What the XML parser yields for one or several sibling elements of a name.
ListOrSingle(ps) == IF Len(ps) = 1 THEN ps[1] ELSE Arr(ps)

\* A point-node of the Cube dialect and of the Obs dialect.
CubeNode(d, v) == Node(<< <<"@_TIME", d>>, <<"@_OBS_VALUE", v>> >>)
ObsNode(d, v) == Node(<< <<"@_TIME_PERIOD", d>>, <<"@_OBS_VALUE", v>> >>)

(***************************************************************************)
(* SpecExtract: extractValue on one node                                   *)
(***************************************************************************)
FieldNames == {"TIME_PERIOD", "TIME", "OBS_VALUE"}

\* What a field of a parsed node can hold, Undefined standing for a field
\* that is not there.
FieldValues == {Undefined, Null, Str(Empty), Str(D1), Num(525)}

ExtractNodes ==
    {Node(<< <<"@_" \o k, a>>, <<k, d>> >>) : k \in FieldNames, a \in FieldValues, d \in FieldValues}
        \cup {Node(<< <<k, d>>, <<"@_" \o k, a>> >>) : k \in FieldNames, a \in FieldValues, d \in FieldValues}
        \cup {Undefined, Null, Str(Empty), Str(Abc), Num(0), Num(525), Arr(<<>>),
              Arr(<<Wrap("@_TIME", Str(D1))>>)}

InitExtract ==
    /\ pc = "extractValue"
    /\ parsed = Undefined
    /\ observations = Null
    /\ points = <<>>
    /\ changesOnly = <<>>
    /\ latest = Null
    /\ status = 0
    /\ errorText = ""
    /\ response = Null
    /\ node \in ExtractNodes
    /\ key \in FieldNames
    /\ extracted = Undefined
    /\ CalcIdle
    /\ CardIdle
    /\ PageIdle

CallExtractValue ==
    /\ pc = "extractValue"
    /\ extracted' = extractValue(node, key)
    /\ pc' = "done"
    /\ UNCHANGED <<parsed, observations, points, changesOnly, latest, status,
                   errorText, response, node, key>>
    /\ UNCHANGED <<calcVars, cardVars, pageVars>>

NextExtract == CallExtractValue

SpecExtract == InitExtract /\ [][NextExtract]_vars

(***************************************************************************)
(* SpecChanges: getChangesOnly on an arbitrary series                      *)
(***************************************************************************)
SeriesValues == {Num(525), Num(550), NaN}

\* The i-th date of an ascending run of dates.
DateAt(i) == <<"2", "0", "0", "0", "-", "0", "1", "-", "0">> \o DigitsOf(i)

\* The series of the given values, at ascending dates.
SeriesOf(vs) == [i \in 1..Len(vs) |-> [date |-> DateAt(i), value |-> vs[i]]]

InitChanges ==
    /\ pc = "getChangesOnly"
    /\ parsed = Undefined
    /\ observations = Null
    /\ \E n \in 0..MaxSeries : \E vs \in [1..n -> SeriesValues] : points = SeriesOf(vs)
    /\ changesOnly = <<>>
    /\ latest = Null
    /\ status = 0
    /\ errorText = ""
    /\ response = Null
    /\ node = Undefined
    /\ key = ""
    /\ extracted = Undefined
    /\ CalcIdle
    /\ CardIdle
    /\ PageIdle

CallGetChangesOnly ==
    /\ pc = "getChangesOnly"
    /\ changesOnly' = getChangesOnly(points)
    /\ pc' = "done"
    /\ UNCHANGED <<parsed, observations, points, latest, status, errorText, response,
                   node, key, extracted>>
    /\ UNCHANGED <<calcVars, cardVars, pageVars>>

NextChanges == CallGetChangesOnly

SpecChanges == InitChanges /\ [][NextChanges]_vars

(***************************************************************************)
(* SpecParse: parseDataPoints on a list of raw nodes, then getChangesOnly  *)
(***************************************************************************)
\* Candidate nodes: complete ones in both forms, ones with a field missing
\* or empty, the two date fields alone and together.
CandidateNodes ==
    {CubeNode(Str(D1), Num(550)), CubeNode(Str(D2), Num(525)),
     CubeNode(Str(D3), Num(525)), CubeNode(Str(D3), Num(550))}
        \cup {CubeNode(Str(d), Str(Abc)) : d \in {D1, D2}}
        \cup {CubeNode(Str(D1), Str(Empty)),
              CubeNode(Str(D2), Str(<<"5", ".", "5", "x">>)),
              CubeNode(Str(D2), Undefined),
              CubeNode(Undefined, Num(550)),
              Node(<< <<"TIME_PERIOD", Str(D3)>>,
                      <<"OBS_VALUE", Str(<<"5", ".", "5", "0">>)>> >>),
              Node(<< <<"@_TIME_PERIOD", Str(Empty)>>, <<"@_TIME", Str(D1)>>,
                      <<"@_OBS_VALUE", Num(525)>> >>),
              Node(<< <<"@_TIME_PERIOD", Str(D2)>>, <<"@_TIME", Str(D1)>>,
                      <<"@_OBS_VALUE", Num(550)>> >>)}

\* Raw nodes: a candidate itself, a node wrapping one candidate or a list of
\* candidates under Cube or cube, and values that are no objects.
RawNodes ==
    CandidateNodes
        \cup {Wrap("Cube", Arr(<<CubeNode(Str(D1), Num(525)), Str(Abc),
                                 CubeNode(Str(D2), Str(Abc))>>)),
              Wrap("cube", CubeNode(Str(D3), Num(525))),
              Str(Abc)}

InitParse ==
    /\ pc = "parseDataPoints"
    /\ parsed = Undefined
    /\ \E n \in 0..MaxNodes : \E l \in [1..n -> RawNodes] : observations = Arr(l)
    /\ points = <<>>
    /\ changesOnly = <<>>
    /\ latest = Null
    /\ status = 0
    /\ errorText = ""
    /\ response = Null
    /\ node = Undefined
    /\ key = ""
    /\ extracted = Undefined
    /\ CalcIdle
    /\ CardIdle
    /\ PageIdle

CallParseDataPoints ==
    /\ pc = "parseDataPoints"
    /\ points' = parseDataPoints(observations.a)
    /\ pc' = "getChangesOnly"
    /\ UNCHANGED <<parsed, observations, changesOnly, latest, status, errorText, response,
                   node, key, extracted>>
    /\ UNCHANGED <<calcVars, cardVars, pageVars>>

NextParse == CallParseDataPoints \/ CallGetChangesOnly

SpecParse == InitParse /\ [][NextParse]_vars

(***************************************************************************)
(* SpecFind: findObservations on documents several strategies can serve    *)
(***************************************************************************)
P1 == CubeNode(Str(D1), Num(525))
P2 == CubeNode(Str(D2), Num(550))
P3 == CubeNode(Str(D3), Num(525))
O1 == ObsNode(Str(D1), Num(550))
O2 == ObsNode(Str(D2), Num(525))

\* The Cube field of the envelope: missing, empty element, one node, a list.
EnvelopeCubes == {Undefined, Str(Empty), P1, Arr(<<P1, P2>>)}
\* A Group of the envelope holding a Cube list one level down.
EnvelopeGroups == {Undefined, Wrap("Cube", Arr(<<P2, P3>>))}
\* The message field of the envelope: missing, text, the full chain.
EnvelopeMessages ==
    {Undefined, Str(Abc),
     Wrap("DataSet", Wrap("Series", Wrap("Obs", Arr(<<O1, O2>>))))}
\* The Cube field of the root: missing, a list, a single node.
RootCubes == {Undefined, Arr(<<P3, P1>>), P3}
\* A Data field of the root holding a Cube list one level down.
RootDatas == {Undefined, Wrap("cube", Arr(<<P1, P3>>))}

Envelopes ==
    {Undefined, Str(Empty), Str(Abc)}
        \cup {Node(<< <<"Cube", c>>, <<"Group", g>>, <<"message", m>> >>) :
                 c \in EnvelopeCubes, g \in EnvelopeGroups, m \in EnvelopeMessages}

FindDocs ==
    {Node(<< <<"Envelope", e>>, <<"Cube", c>>, <<"Data", d>> >>) :
        e \in Envelopes, c \in RootCubes, d \in RootDatas}
        \cup {Undefined, Str(Abc)}

InitFind ==
    /\ pc = "findObservations"
    /\ parsed \in FindDocs
    /\ observations = Null
    /\ points = <<>>
    /\ changesOnly = <<>>
    /\ latest = Null
    /\ status = 0
    /\ errorText = ""
    /\ response = Null
    /\ node = Undefined
    /\ key = ""
    /\ extracted = Undefined
    /\ CalcIdle
    /\ CardIdle
    /\ PageIdle

CallFindObservations ==
    /\ pc = "findObservations"
    /\ observations' = findObservations(parsed)
    /\ pc' = "done"
    /\ UNCHANGED <<parsed, points, changesOnly, latest, status, errorText, response,
                   node, key, extracted>>
    /\ UNCHANGED <<calcVars, cardVars, pageVars>>

NextFind == CallFindObservations

SpecFind == InitFind /\ [][NextFind]_vars

(***************************************************************************)
(* Spec: GET on a parsed document of one shape                             *)
(***************************************************************************)
\* The point-nodes of a document: date, and a value that is a number, text
\* that does not parse, or missing.
PointSpecs ==
    {<<d, v>> : d \in Dates, v \in {Num(525), Num(550), Str(Abc)}}
        \cup {<<D1, Undefined>>}

CubeNodes(l) == [i \in 1..Len(l) |-> CubeNode(Str(l[i][1]), l[i][2])]
ObsNodes(l) == [i \in 1..Len(l) |-> ObsNode(Str(l[i][1]), l[i][2])]

\* Names of the elements that can stand between the envelope and the
\* innermost Cube elements.
ChainKeys == {"Cube", "Group"}

\* (a) point-nodes directly in the envelope's Cube field
ShapeA(e, c, nodes) == Wrap(e, Wrap(c, ListOrSingle(nodes)))
\* (b) point-nodes three levels below the envelope
ShapeB(k1, k2, nodes) ==
    Wrap("Envelope", Wrap(k1, Wrap(k2, Wrap("Cube", ListOrSingle(nodes)))))
\* (c) the message / DataSet / Series / Obs dialect
ShapeC(nodes) ==
    Wrap("Envelope",
         Wrap("message", Wrap("DataSet", Wrap("Series", Wrap("Obs", ListOrSingle(nodes))))))
\* point-nodes in a Cube of the envelope's Cube (line 48)
ShapeNested(nodes) == Wrap("Envelope", Wrap("Cube", Wrap("Cube", ListOrSingle(nodes))))
\* a Cube list at the top, and a Cube field below the top
ShapeTop(nodes) == Wrap("Cube", ListOrSingle(nodes))
ShapeDeep(nodes) == Wrap("Root", Wrap("Data", Wrap("Cube", ListOrSingle(nodes))))

\* The document of a shape for a list of point-nodes.
ShapeNames == {"a", "a-lower", "b-cube-cube", "b-cube-group", "b-group-cube",
               "b-group-group", "c", "nested", "top", "deep"}

DocOf(shape, l) ==
    CASE shape = "a" -> ShapeA("Envelope", "Cube", CubeNodes(l))
      [] shape = "a-lower" -> ShapeA("envelope", "cube", CubeNodes(l))
      [] shape = "b-cube-cube" -> ShapeB("Cube", "Cube", CubeNodes(l))
      [] shape = "b-cube-group" -> ShapeB("Cube", "Group", CubeNodes(l))
      [] shape = "b-group-cube" -> ShapeB("Group", "Cube", CubeNodes(l))
      [] shape = "b-group-group" -> ShapeB("Group", "Group", CubeNodes(l))
      [] shape = "c" -> ShapeC(ObsNodes(l))
      [] shape = "nested" -> ShapeNested(CubeNodes(l))
      [] shape = "top" -> ShapeTop(CubeNodes(l))
      [] OTHER -> ShapeDeep(CubeNodes(l))

\* Documents without a point-node.
BareDocs ==
    {Wrap("Envelope", Str(Empty)), Wrap("Envelope", Wrap("Group", Str(Abc))),
     Wrap("Envelope", Wrap("Cube", Arr(<<Str(Abc), Str(Empty)>>)))}

Init ==
    /\ pc = "GET"
    /\ \/ \E shape \in ShapeNames : \E n \in 1..MaxPoints : \E l \in [1..n -> PointSpecs] :
              parsed = DocOf(shape, l)
       \/ parsed \in BareDocs
    /\ observations = Null
    /\ points = <<>>
    /\ changesOnly = <<>>
    /\ latest = Null
    /\ status = 0
    /\ errorText = ""
    /\ response = Null
    /\ node = Undefined
    /\ key = ""
    /\ extracted = Undefined
    /\ CalcIdle
    /\ CardIdle
    /\ PageIdle

\* Lines 276-323: from the parsed document doc to the response
Respond(doc) ==
    /\ observations' = findObservations(doc)
    /\ points' = IF NoObservations(observations') \/ FirstKeysThrow(observations')
                 THEN <<>>
                 ELSE parseDataPoints(observations'.a)
    /\ changesOnly' = IF Len(points') = 0 THEN <<>> ELSE getChangesOnly(points')
    /\ latest' = IF Len(points') = 0 THEN Null ELSE LatestOf(changesOnly')
    /\ status' = IF NoObservations(observations') THEN 502
                 ELSE IF FirstKeysThrow(observations') THEN 500
                 ELSE IF Len(points') = 0 THEN 502
                 ELSE 200
    /\ errorText' = IF NoObservations(observations') THEN NoObservationsError
                    ELSE IF FirstKeysThrow(observations') THEN InternalError
                    ELSE IF Len(points') = 0 THEN NoPointsError
                    ELSE ""

GET ==
    /\ pc = "GET"
    /\ Respond(parsed)
    /\ pc' = "done"
    /\ UNCHANGED <<parsed, response, node, key, extracted>>
    /\ UNCHANGED <<calcVars, cardVars, pageVars>>

Next == GET

Spec == Init /\ [][Next]_vars

(***************************************************************************)
(* SpecShapes: findObservations, then parseDataPoints, on documents built  *)
(* from maps, lists, scalars and absent values                             *)
(***************************************************************************)
MaxNesting == 3   \* levels of maps and lists around a leaf

ShapeKeys == {"Envelope", "envelope", "Cube", "cube", "Group"}

\* Leaves: absent values, scalars, empty containers, a point-node, a node
\* whose date is a map, and the message chain whole and broken.
Leaves ==
    {Undefined, Null, Str(Empty), Str(Abc), Num(0), Num(525), Arr(<<>>), Obj(<<>>),
     CubeNode(Str(D1), Num(525)),
     CubeNode(Obj(<<>>), Null),
     Wrap("message", Wrap("DataSet", Wrap("Series", Wrap("Obs", ObsNode(Str(D2), Num(550)))))),
     Wrap("message", Wrap("DataSet", Wrap("Series", Null)))}

\* One more level around the values of S: under a key, alone in a list,
\* or in a list next to null.
Around(S) ==
    S \cup {Wrap(k, v) : k \in ShapeKeys, v \in S}
      \cup {Arr(<<v>>) : v \in S}
      \cup {Arr(<<Null, v>>) : v \in S}

RECURSIVE ShapesOf(_)
ShapesOf(n) == IF n = 0 THEN Leaves ELSE Around(ShapesOf(n - 1))

InitShapes ==
    /\ pc = "search"
    /\ parsed \in ShapesOf(MaxNesting)
    /\ observations = Null
    /\ points = <<>>
    /\ changesOnly = <<>>
    /\ latest = Null
    /\ status = 0
    /\ errorText = ""
    /\ response = Null
    /\ node = Undefined
    /\ key = ""
    /\ extracted = Undefined
    /\ CalcIdle
    /\ CardIdle
    /\ PageIdle

\* findObservations on the document; what it returns, if anything, goes to
\* parseDataPoints.
SearchShape ==
    /\ pc = "search"
    /\ observations' = findObservations(parsed)
    /\ pc' = IF observations' = Null THEN "done" ELSE "parse"
    /\ UNCHANGED <<parsed, points, changesOnly, latest, status, errorText, response, node, key,
                   extracted, calcVars, cardVars, pageVars>>

ParseShape ==
    /\ pc = "parse"
    /\ points' = parseDataPoints(observations.a)
    /\ pc' = "done"
    /\ UNCHANGED <<parsed, observations, changesOnly, latest, status, errorText, response, node,
                   key, extracted, calcVars, cardVars, pageVars>>

NextShapes == SearchShape \/ ParseShape

SpecShapes == InitShapes /\ [][NextShapes]_vars

(***************************************************************************)
(* SpecFinance: the four functions of finance.ts on one triple of          *)
(* arguments, called in any order                                          *)
(***************************************************************************)
MaxTerm == 3   \* the largest number of years or months handed in

\* 1e-13, a rate so small that 1 + monthlyRate rounds to 1
TinyRate == FDiv(One, FMul(FromInt(10000000), FromInt(1000000)))

AmountsIn == {FNaN, FromInt(-1000), FZero, FromInt(1000), Decimal(1268954, 2)}
RatesIn == {FNaN, FromInt(-1), FZero, TinyRate, Decimal(292, 2), FromInt(18)}
TermsIn == {FNaN, FromInt(-1)} \cup {FromInt(n) : n \in 0..MaxTerm}

InitFinance ==
    /\ pc = "finance"
    /\ FeedIdle
    /\ amount \in AmountsIn
    /\ ratePct \in RatesIn
    /\ term \in TermsIn
    /\ returned = NothingReturned
    /\ CardIdle
    /\ PageIdle

\* The call of function f returns v.
Return(f, v) ==
    /\ pc = "finance"
    /\ returned[f] = Undefined
    /\ returned' = [returned EXCEPT ![f] = v]
    /\ UNCHANGED <<pc, feedVars, amount, ratePct, term, cardVars, pageVars>>

CallMonthlyPaymentAmortised ==
    Return("monthlyPaymentAmortised", monthlyPaymentAmortised(amount, ratePct, term))

CallMonthlyPaymentInterestOnly ==
    Return("monthlyPaymentInterestOnly", monthlyPaymentInterestOnly(amount, ratePct))

CallSavingsCompoundMonthly ==
    Return("savingsCompoundMonthly", savingsCompoundMonthly(amount, ratePct, term))

CallSavingsSimple ==
    Return("savingsSimple", savingsSimple(amount, ratePct, term))

NextFinance ==
    \/ CallMonthlyPaymentAmortised
    \/ CallMonthlyPaymentInterestOnly
    \/ CallSavingsCompoundMonthly
    \/ CallSavingsSimple

SpecFinance == InitFinance /\ [][NextFinance]_vars

(***************************************************************************)
(* SpecCard: the credit-card simulation, one loop iteration per step       *)
(***************************************************************************)
BalancesIn == {FNaN, FZero, FromInt(-100), Decimal(5, 3), FromInt(600), FromInt(601),
               FromInt(5000), FromInt(8100)}
AprsIn == {FNaN, FZero, FromInt(18), Decimal(184, 1)}
RepaymentsIn == {FNaN, FZero, FromInt(1), FromInt(50), Decimal(75001, 3),
                 Decimal(1242, 1), FromInt(200)}

InitCard ==
    /\ pc = "loanResults"
    /\ FeedIdle
    /\ CalcIdle
    /\ PageIdle
    /\ \E b \in BalancesIn, a \in AprsIn, r \in RepaymentsIn :
           loan = [balance |-> b, apr |-> a, monthlyRepayment |-> r]
    /\ currentBalance = FZero
    /\ totalInterest = FZero
    /\ months = 0
    /\ loanResults = Null

\* Lines 296-313: the inputs, the short circuit, the loop variables
EnterCreditCard ==
    /\ pc = "loanResults"
    /\ IF Degenerate(OrZero(loan.balance), OrZero(loan.monthlyRepayment))
       THEN /\ loanResults' = Result(Null, FZero, FALSE)
            /\ pc' = "done"
            /\ UNCHANGED <<currentBalance, totalInterest, months>>
       ELSE /\ currentBalance' = OrZero(loan.balance)
            /\ totalInterest' = FZero
            /\ months' = 0
            /\ pc' = "while"
            /\ UNCHANGED loanResults
    /\ UNCHANGED <<feedVars, calcVars, pageVars, loan>>

\* Lines 315-330: one pass through the loop body
LoopIteration ==
    /\ pc = "while"
    /\ LoopContinues(currentBalance, months)
    /\ LET monthlyInterest == FMul(currentBalance, MonthlyRate(OrZero(loan.apr)))
       IN IF FLessEq(OrZero(loan.monthlyRepayment), monthlyInterest)
          THEN /\ totalInterest' = FAdd(totalInterest, monthlyInterest)
               /\ loanResults' = InsufficientResult(totalInterest, monthlyInterest)
               /\ pc' = "done"
               /\ UNCHANGED <<currentBalance, months>>
          ELSE /\ totalInterest' = FAdd(totalInterest, monthlyInterest)
               /\ currentBalance' = FSub(FAdd(currentBalance, monthlyInterest),
                                         OrZero(loan.monthlyRepayment))
               /\ months' = months + 1
               /\ UNCHANGED <<pc, loanResults>>
    /\ UNCHANGED <<feedVars, calcVars, pageVars, loan>>

\* Lines 332-337: the loop condition fails
ReturnAfterLoop ==
    /\ pc = "while"
    /\ ~LoopContinues(currentBalance, months)
    /\ loanResults' = FinalResult(months, totalInterest)
    /\ pc' = "done"
    /\ UNCHANGED <<feedVars, calcVars, pageVars, loan, currentBalance, totalInterest, months>>

NextCard == EnterCreditCard \/ LoopIteration \/ ReturnAfterLoop

SpecCard == InitCard /\ [][NextCard]_vars

\* The simulation is one synchronous computation: until it has returned it
\* keeps running, and every step of it moves to another position or counts
\* a month. The fairness is stated over these two variables.
Running ==
    /\ pc # "done"
    /\ pc' \in {"while", "done"}
    /\ months' \in {months, months + 1}

SpecCardLive == SpecCard /\ WF_<<pc, months>>(Running)

(***************************************************************************)
(* ImpactCalculators: the scenario comparison.  The component is mounted   *)
(* with the default inputs over a Bank Rate; the pills of the form change  *)
(* the inputs, and every change is followed by the render that recomputes  *)
(* the useMemo values whose dependencies changed.                          *)
(***************************************************************************)
\* Bank Rates handed to the component: 3.75 and 4
LatestRates == {Decimal(375, 2), FromInt(4)}

\* Mutant: what was computed first is kept whatever the dependencies are.
MemoKept(kept, sameDeps, fresh) == kept

\* useMemo: the value kept when no dependency changed, else computed anew
Memo(kept, sameDeps, fresh) == IF sameDeps THEN kept ELSE fresh

InitCompose ==
    /\ pc = "page"
    /\ FeedIdle
    /\ CalcIdle
    /\ loan = [balance |-> FZero, apr |-> FZero, monthlyRepayment |-> FZero]
    /\ currentBalance = FZero
    /\ totalInterest = FZero
    /\ months = 0
    /\ latestRate \in LatestRates
    /\ inputs = defaultInputs
    /\ activeTab = "mortgage"
    /\ mortgageResults = MortgageResultsFor(inputs, latestRate)
    /\ savingsResults = SavingsResultsFor(inputs, latestRate)
    /\ loanResults = PersonalLoanResultsOf(inputs.loan, latestRate)
    /\ storage = Null
    /\ effects = <<>>
    /\ pending = <<>>
    /\ storedBefore = Null

\* setInputs(next) and the render after it; the dependency lists are those
\* of lines 235, 272 and 339
Rerender(change) ==
    /\ pc = "page"
    /\ \E next \in {change}, sameScenarioRate \in
              {ScenarioRateOf(latestRate, change) = ScenarioRateOf(latestRate, inputs)} :
           /\ inputs' = next
           /\ mortgageResults' =
                  Memo(mortgageResults,
                       next.mortgage = inputs.mortgage /\ sameScenarioRate,
                       MortgageResultsFor(next, latestRate))
           /\ savingsResults' =
                  Memo(savingsResults,
                       next.savings = inputs.savings /\ sameScenarioRate,
                       SavingsResultsFor(next, latestRate))
           /\ loanResults' =
                  Memo(loanResults, next.loan = inputs.loan,
                       PersonalLoanResultsOf(next.loan, latestRate))
    /\ UNCHANGED <<pc, feedVars, calcVars, loan, currentBalance, totalInterest, months,
                   latestRate, activeTab, storage, effects, pending, storedBefore>>

\* Lines 162-167, for the scenario pills
UpdateScenarioChange ==
    \E d \in ScenarioChanges : Rerender([inputs EXCEPT !.scenarioChange = d])

\* Lines 169-177, for the repayment type and for the loan amount, typed
\* in or cleared
UpdateMortgageInput ==
    \E next \in {[inputs EXCEPT !.mortgage.repaymentType = v] :
                     v \in {"repayment", "interest-only"}}
                 \cup {[inputs EXCEPT !.mortgage.loanAmount = v] :
                          v \in {FromInt(250000), FNaN}} :
        Rerender(next)

\* Lines 179-187, for the savings mode, the interest type and a balance
\* above or below zero
UpdateSavingsInput ==
    \E next \in {[inputs EXCEPT !.savings.savingsMode = v] : v \in {"margin", "fixed"}}
                 \cup {[inputs EXCEPT !.savings.interestType = v] :
                          v \in {"simple", "compound"}}
                 \cup {[inputs EXCEPT !.savings.balance = v] :
                          v \in {FromInt(10000), FromInt(-1000)}} :
        Rerender(next)

\* Lines 189-197, for the rate mode of the personal loan
UpdateLoanInput ==
    \E v \in {"margin", "fixed"} : Rerender([inputs EXCEPT !.loan.rateMode = v])

NextCompose ==
    \/ UpdateScenarioChange
    \/ UpdateMortgageInput
    \/ UpdateSavingsInput
    \/ UpdateLoanInput

SpecCompose == InitCompose /\ [][NextCompose]_vars

(***************************************************************************)
(* ImpactCalculators, lines 133-157: the state, the load effect and the    *)
(* save effect, over localStorage.  After a render React runs the effects  *)
(* whose dependencies changed, in the order of the source; the updates an  *)
(* effect queues are applied together in the next render.  On mount every *)
(* effect runs, and under StrictMode in development React runs the mount   *)
(* effects a second time before that next render.                          *)
(***************************************************************************)
\* How often the mount effects run: once, or twice under StrictMode
EffectRuns == {<<"load", "save">>, <<"load", "save", "load", "save">>}

\* JSON.stringify of a number: NaN is written as null
JsonNumber(x) == IF x.nan THEN Null ELSE x

\* Line 153: JSON.stringify({ ...inputs, activeTab }); the fields of the
\* form are strings and are written as they are
Stringify(in, tab) ==
    [t |-> "string",
     json |-> [scenarioChange |-> JsonNumber(in.scenarioChange),
               activeTab |-> tab,
               mortgage |-> in.mortgage,
               savings |-> in.savings,
               loan |-> in.loan]]

\* Line 141: JSON.parse of an item written by line 153
JsonParse(item) == item.json

\* Lines 133-134 and 137-157: the first render, with its effects to run
Mounting(runs) ==
    /\ pc' = "mounting"
    /\ inputs' = defaultInputs
    /\ activeTab' = "mortgage"
    /\ effects' = runs
    /\ pending' = <<>>

InitPersist ==
    /\ pc = "mounting"
    /\ FeedIdle
    /\ CalcIdle
    /\ CardIdle
    /\ latestRate = FZero
    /\ mortgageResults = Null
    /\ savingsResults = Null
    /\ inputs = defaultInputs
    /\ activeTab = "mortgage"
    /\ storage = Null
    /\ effects \in EffectRuns
    /\ pending = <<>>
    /\ storedBefore = Null

\* Lines 137-148: the load effect
LoadEffect ==
    /\ pc = "mounting"
    /\ effects # <<>>
    /\ Head(effects) = "load"
    /\ effects' = Tail(effects)
    /\ pending' = IF storage = Null THEN pending
                  ELSE Append(pending,
                              [inputs |-> JsonParse(storage),
                               activeTab |-> IF JsonParse(storage).activeTab = ""
                                             THEN "mortgage"
                                             ELSE JsonParse(storage).activeTab])
    /\ UNCHANGED <<pc, feedVars, calcVars, cardVars, latestRate, inputs, activeTab,
                   mortgageResults, savingsResults, storage, storedBefore>>

\* Lines 151-157: the save effect
SaveEffect ==
    /\ pc = "mounting"
    /\ effects # <<>>
    /\ Head(effects) = "save"
    /\ effects' = Tail(effects)
    /\ storage' = Stringify(inputs, activeTab)
    /\ UNCHANGED <<pc, feedVars, calcVars, cardVars, latestRate, inputs, activeTab,
                   mortgageResults, savingsResults, pending, storedBefore>>

\* The render after the effects: the queued updates are applied, the last
\* one of each state last, and the save effect is due because inputs is a
\* new object
RenderPending ==
    /\ pc = "mounting"
    /\ effects = <<>>
    /\ pending # <<>>
    /\ inputs' = pending[Len(pending)].inputs
    /\ activeTab' = pending[Len(pending)].activeTab
    /\ pending' = <<>>
    /\ effects' = <<"save">>
    /\ UNCHANGED <<pc, feedVars, calcVars, cardVars, latestRate, mortgageResults,
                   savingsResults, storage, storedBefore>>

\* Nothing is left to run: the component waits for the user
Settle ==
    /\ pc = "mounting"
    /\ effects = <<>>
    /\ pending = <<>>
    /\ pc' = "mounted"
    /\ UNCHANGED <<feedVars, calcVars, cardVars, pageVars>>

\* A change of the state by the user, the render and the save effect after
\* it (lines 151-157 with the new state)
Change(in, tab) ==
    /\ pc = "mounted"
    /\ inputs' = in
    /\ activeTab' = tab
    /\ storage' = Stringify(in, tab)
    /\ UNCHANGED <<pc, feedVars, calcVars, cardVars, latestRate, mortgageResults,
                   savingsResults, effects, pending, storedBefore>>

\* Lines 162-167 on the scenario, lines 169-177 on the loan amount
ChangeInputs ==
    \/ \E d \in ScenarioChanges : Change([inputs EXCEPT !.scenarioChange = d], activeTab)
    \/ \E v \in {FromInt(250000), FromInt(300000)} :
           Change([inputs EXCEPT !.mortgage.loanAmount = v], activeTab)

\* setActiveTab of the tab buttons
ChangeTab == \E tab \in TabTypes : Change(inputs, tab)

\* The page is refreshed: the component state is gone, localStorage stays
Refresh ==
    /\ pc = "mounted"
    /\ storedBefore' = storage
    /\ \E runs \in EffectRuns : Mounting(runs)
    /\ UNCHANGED <<feedVars, calcVars, cardVars, latestRate, mortgageResults,
                   savingsResults, storage>>

NextPersist ==
    \/ LoadEffect
    \/ SaveEffect
    \/ RenderPending
    \/ Settle
    \/ ChangeInputs
    \/ ChangeTab
    \/ Refresh

SpecPersist == InitPersist /\ [][NextPersist]_vars

(***************************************************************************)
(* SpecUpstream: GET from the answer of the Bank on                        *)
(***************************************************************************)
UpstreamStatuses == {200, 404, 503}
BodyLengths == {0, 99, 100, 2000}

\* What parser.parse makes of the body: documents with points in two
\* dialects, without a point-node, with a point-node that has no value, with
\* null in the place of the first point-node; or it throws.
UpstreamDocs ==
    {DocOf("a", <<<<D1, Num(525)>>, <<D2, Num(525)>>, <<D3, Num(550)>>>>),
     DocOf("c", <<<<D2, Num(550)>>, <<D1, Num(525)>>>>),
     DocOf("deep", <<<<D1, Str(Abc)>>, <<D2, Num(550)>>>>),
     DocOf("a", <<<<D1, Undefined>>>>),
     Wrap("Envelope", Wrap("Cube", Arr(<<Null, P1>>))),
     Obj(<<>>)}
        \cup BareDocs

InitUpstream ==
    /\ pc = "fetch"
    /\ \E rejects \in BOOLEAN, st \in UpstreamStatuses, html \in BOOLEAN,
          length \in BodyLengths, parse \in UpstreamDocs \cup {Throws} :
           response = [rejects |-> rejects, status |-> st, html |-> html,
                       length |-> length, parse |-> parse]
    /\ parsed = Undefined
    /\ observations = Null
    /\ points = <<>>
    /\ changesOnly = <<>>
    /\ latest = Null
    /\ status = 0
    /\ errorText = ""
    /\ node = Undefined
    /\ key = ""
    /\ extracted = Undefined
    /\ CalcIdle
    /\ CardIdle
    /\ PageIdle

\* Lines 205-338, the whole handler; fetch or response.text() may reject.
GETUpstream ==
    /\ pc = "fetch"
    /\ IF response.rejects
       THEN /\ status' = 500
            /\ errorText' = InternalError
            /\ UNCHANGED <<parsed, observations, points, changesOnly, latest>>
       ELSE IF UpstreamFailure(response) # ""
       THEN /\ status' = 502
            /\ errorText' = UpstreamFailure(response)
            /\ UNCHANGED <<parsed, observations, points, changesOnly, latest>>
       ELSE /\ parsed' = response.parse
            /\ Respond(response.parse)
    /\ pc' = "done"
    /\ UNCHANGED <<response, node, key, extracted>>
    /\ UNCHANGED <<calcVars, cardVars, pageVars>>

NextUpstream == GETUpstream

SpecUpstream == InitUpstream /\ [][NextUpstream]_vars

(***************************************************************************)
(* SpecSearch: findCubesRecursive on nested documents                      *)
(***************************************************************************)
\* The deepest nesting of the documents searched.
MaxSearchDepth == 7

\* A map holding point-nodes under either spelling of the key: missing, an
\* empty element, one node, a list.
SearchLeaves ==
    {Node(<< <<"Cube", c>>, <<"cube", d>> >>) :
        c \in {Undefined, Str(Empty), P1, Arr(<<P1, P2>>)},
        d \in {Undefined, P3, Arr(<<P2, P3>>)}}

\* leaf below k maps, each the only Group of the one above.
RECURSIVE Nested(_, _)
Nested(k, leaf) == IF k = 0 THEN leaf ELSE Wrap("Group", Nested(k - 1, leaf))

SearchChains == {Nested(k, leaf) : k \in 0..MaxSearchDepth, leaf \in SearchLeaves}

\* Maps with point-nodes of their own and two children holding more, and a
\* point-node that holds a point-node.
SearchSiblings ==
    {Node(<< <<"Group", Nested(k, Wrap("Cube", P2))>>, <<"Cube", c>>,
             <<"Data", Wrap("cube", Arr(<<P3, P1>>))>> >>) :
        k \in 0..MaxSearchDepth, c \in {Undefined, P1}}
        \cup {Wrap("Cube", Node(<< <<"@_TIME", Str(D1)>>, <<"Cube", P2>> >>))}

\* The maps of several sibling elements of one name, which the XML parser
\* yields as a list.
SearchLists ==
    {Nested(k, Wrap("Group", Arr(<<Wrap("Cube", Arr(<<P1, P2>>)), Wrap("Cube", P3)>>))) :
        k \in 0..2}

SearchDocs == SearchChains \cup SearchSiblings \cup SearchLists

InitSearch ==
    /\ pc = "findCubesRecursive"
    /\ parsed \in SearchDocs
    /\ observations = Null
    /\ points = <<>>
    /\ changesOnly = <<>>
    /\ latest = Null
    /\ status = 0
    /\ errorText = ""
    /\ response = Null
    /\ node = Undefined
    /\ key = ""
    /\ extracted = Undefined
    /\ CalcIdle
    /\ CardIdle
    /\ PageIdle

CallFindCubesRecursive ==
    /\ pc = "findCubesRecursive"
    /\ observations' = Arr(findCubesRecursive(parsed, 0))
    /\ pc' = "done"
    /\ UNCHANGED <<parsed, points, changesOnly, latest, status, errorText, response,
                   node, key, extracted>>
    /\ UNCHANGED <<calcVars, cardVars, pageVars>>

NextSearch == CallFindCubesRecursive

SpecSearch == InitSearch /\ [][NextSearch]_vars

(***************************************************************************)
(* Claims                                                                  *)
(***************************************************************************)
\* The value object n holds under property k, Undefined when it has none.
\* A property holding null counts as missing, as it does for the code.
FieldOf(n, k) ==
    IF n.t = "object" /\ \E i \in 1..Len(n.m) : n.m[i][1] = k
    THEN LET i == CHOOSE j \in 1..Len(n.m) : n.m[j][1] = k
         IN IF n.m[i][2] = Null THEN Undefined ELSE n.m[i][2]
    ELSE Undefined

\* C6: extractValue(node, key) returns the attribute form ("@_" + key) of the
\* field, as a string, whenever the node has it, also when the node has a
\* direct child of that name as well; it returns the direct child only when
\* the attribute form is missing; it returns undefined when the node has
\* neither or is no object.
C6_AttributeFormFirst ==
    (pc = "done" /\ key # "") =>
        LET attr == FieldOf(node, "@_" \o key)
            child == FieldOf(node, key)
        IN /\ attr # Undefined => extracted = Str(String(attr))
           /\ (attr = Undefined /\ child # Undefined) => extracted = Str(String(child))
           /\ (attr = Undefined /\ child = Undefined) => extracted = Undefined

\* A node with both forms, holding different values, gave the attribute's.
C6_Witness ==
    /\ pc = "done"
    /\ FieldOf(node, "@_TIME") = Str(D1)
    /\ FieldOf(node, "TIME") = Num(525)
    /\ key = "TIME"
    /\ extracted = Str(D1)

\* C3: getChangesOnly returns element 0 followed by each element i >= 1 whose
\* value is unequal (!==) to that of element i-1 of the series it was given,
\* in series order; the empty series gives the empty result.
KeptIndices(ps) ==
    {i \in 1..Len(ps) : i = 1 \/ StrictNotEqual(ps[i].value, ps[i - 1].value)}

\* The k-th smallest element of a set of integers.
NthOf(S, k) == CHOOSE i \in S : Cardinality({j \in S : j <= i}) = k

IsStructured(v) == v.t \in {"object", "array"}

CandidatesOfNode(obs) ==
    IF ~IsStructured(obs) THEN <<>>
    ELSE LET inner == IF Truthy(FieldOf(obs, "Cube")) THEN FieldOf(obs, "Cube")
                      ELSE FieldOf(obs, "cube")
         IN IF ~Truthy(inner) THEN <<obs>>
            ELSE IF inner.t = "array" THEN SelectSeq(inner.a, IsStructured)
            ELSE IF IsStructured(inner) THEN <<inner>>
            ELSE <<>>

RECURSIVE CandidatesOf(_)
CandidatesOf(obsList) ==
    IF obsList = <<>> THEN <<>>
    ELSE CandidatesOfNode(Head(obsList)) \o CandidatesOf(Tail(obsList))

\* The string a field of a candidate resolves to, Undefined when it has
\* neither form of the field.
Resolved(c, k) ==
    IF FieldOf(c, "@_" \o k) # Undefined THEN Str(String(FieldOf(c, "@_" \o k)))
    ELSE IF FieldOf(c, k) # Undefined THEN Str(String(FieldOf(c, k)))
    ELSE Undefined

\* The date of a candidate: TIME_PERIOD when it resolves to a string (to a
\* non-empty string), TIME otherwise.
DateIfPresent(c) ==
    IF Resolved(c, "TIME_PERIOD") # Undefined THEN Resolved(c, "TIME_PERIOD")
    ELSE Resolved(c, "TIME")

DateIfNonEmpty(c) ==
    IF Truthy(Resolved(c, "TIME_PERIOD")) THEN Resolved(c, "TIME_PERIOD")
    ELSE Resolved(c, "TIME")

\* Both fields resolve to a string; both resolve to a non-empty string.
BothPresent(c) == DateIfPresent(c) # Undefined /\ Resolved(c, "OBS_VALUE") # Undefined

BothNonEmpty(c) == Truthy(DateIfNonEmpty(c)) /\ Truthy(Resolved(c, "OBS_VALUE"))

Parsed == pc \in {"getChangesOnly", "done"} /\ observations # Null

\* C1: the points parseDataPoints returns are strictly ascending by date, so
\* no two of them have the same date.
C1_StrictlyAscendingDates ==
    Parsed =>
        \A i \in 1..Len(points) : \A j \in 1..Len(points) :
            i < j => /\ LocaleCompare(points[i].date, points[j].date) < 0
                     /\ points[i].date # points[j].date

\* Nodes given latest date first, one date twice, came out ascending.
C1_Witness ==
    /\ pc = "getChangesOnly"
    /\ Len(observations.a) = 3
    /\ observations.a[1] = CubeNode(Str(D3), Num(525))
    /\ observations.a[2] = CubeNode(Str(D1), Num(550))
    /\ observations.a[3] = CubeNode(Str(D3), Num(550))
    /\ Len(points) = 2
    /\ points[1].date = D1
    /\ points[2].date = D3

\* Indices of the candidates that carry date d, and of those among them
\* that also have a non-empty value.
Carrying(cands, d) == {i \in 1..Len(cands) : DateIfNonEmpty(cands[i]) = Str(d)}

CompleteCarrying(cands, d) == {i \in Carrying(cands, d) : BothNonEmpty(cands[i])}

Least(S) == CHOOSE i \in S : \A j \in S : i <= j

ValueOf(c) == ParseFloat(String(Resolved(c, "OBS_VALUE")))

\* C2 as stated: when several candidates carry the same date, the point of
\* that date holds the value of the first of them in input order.
C2_FirstCarrierWins ==
    Parsed =>
        LET cands == CandidatesOf(observations.a)
        IN \A k \in 1..Len(points) :
              Cardinality(Carrying(cands, points[k].date)) >= 2 =>
                  points[k].value = ValueOf(cands[Least(Carrying(cands, points[k].date))])

\* C2, amended: when several candidates that have a non-empty date and a
\* non-empty value carry the same date, the point of that date holds the
\* value of the first of them in input order, whatever the later values; a
\* candidate without a value does not take the date.
C2_FirstCompleteWins ==
    Parsed =>
        LET cands == CandidatesOf(observations.a)
        IN /\ \A k \in 1..Len(points) :
                 /\ CompleteCarrying(cands, points[k].date) # {}
                 /\ points[k].value =
                        ValueOf(cands[Least(CompleteCarrying(cands, points[k].date))])
           /\ \A i \in 1..Len(cands) :
                 BothNonEmpty(cands[i]) =>
                     Cardinality({k \in 1..Len(points) :
                                     Str(points[k].date) = DateIfNonEmpty(cands[i])}) = 1

\* Two complete candidates of one date, 5.25 before 5.5: the point holds 5.25.
C2_Witness ==
    /\ pc = "getChangesOnly"
    /\ Len(observations.a) = 2
    /\ observations.a[1] = CubeNode(Str(D3), Num(525))
    /\ observations.a[2] = CubeNode(Str(D3), Num(550))
    /\ points = <<[date |-> D3, value |-> Num(525)]>>

\* C4 as stated: a series from parseDataPoints in which every point carries
\* the same parsed value gives a changes-only list of its first point alone.
C4_ConstantSeriesOneChange ==
    (pc = "done" /\ observations # Null /\ Len(points) >= 1
        /\ \A i \in 1..Len(points) : points[i].value = points[1].value)
    => changesOnly = <<points[1]>>

\* The same, for series whose common value is a number (held by the code).
C4_ConstantNumberOneChange ==
    (pc = "done" /\ observations # Null /\ Len(points) >= 1
        /\ ~points[1].value.nan
        /\ \A i \in 1..Len(points) : points[i].value = points[1].value)
    => changesOnly = <<points[1]>>

\* C7 as stated: the points are exactly one per date among the candidates
\* whose date (TIME_PERIOD first, then TIME) and value resolve to strings.
C7_PresentFieldsContribute ==
    Parsed =>
        LET cands == CandidatesOf(observations.a)
            dates == {DateIfPresent(cands[i]).s :
                         i \in {j \in 1..Len(cands) : BothPresent(cands[j])}}
        IN /\ {points[k].date : k \in 1..Len(points)} = dates
           /\ Len(points) = Cardinality(dates)

\* C7, amended: the points are exactly one per date among the candidates
\* whose date (TIME_PERIOD when non-empty, else TIME) and value resolve to
\* non-empty strings; a candidate with a missing or empty field contributes
\* none, and the other candidates of the batch still do.
C7_NonEmptyFieldsContribute ==
    Parsed =>
        LET cands == CandidatesOf(observations.a)
            dates == {DateIfNonEmpty(cands[i]).s :
                         i \in {j \in 1..Len(cands) : BothNonEmpty(cands[j])}}
        IN /\ {points[k].date : k \in 1..Len(points)} = dates
           /\ Len(points) = Cardinality(dates)

\* A candidate without a value between two complete ones: two points.
C7_Witness ==
    /\ pc = "getChangesOnly"
    /\ Len(observations.a) = 3
    /\ observations.a[1] = CubeNode(Str(D1), Num(550))
    /\ observations.a[2] = CubeNode(Str(D2), Undefined)
    /\ observations.a[3] = CubeNode(Str(D3), Num(550))
    /\ Len(points) = 2
    /\ points[1].date = D1
    /\ points[2].date = D3

\* The number of leading characters of s that form [+-] digits [. digits],
\* and whether they hold a digit.
NumberPrefix(s) ==
    LET signed == s # <<>> /\ Head(s) \in {"-", "+"}
        body == IF signed THEN Tail(s) ELSE s
        nInt == DigitRun(body)
        rest == SubSeq(body, nInt + 1, Len(body))
        nFrac == IF rest # <<>> /\ Head(rest) = "." THEN DigitRun(Tail(rest)) ELSE 0
    IN [digits |-> nInt + nFrac,
        length |-> (IF signed THEN 1 ELSE 0) + nInt
                       + (IF rest # <<>> /\ Head(rest) = "." THEN 1 + nFrac ELSE 0)]

\* s is the decimal notation of a number, and nothing else.
IsNumeric(s) == NumberPrefix(s).digits > 0 /\ NumberPrefix(s).length = Len(s)

\* s begins with the decimal notation of a number.
BeginsWithNumber(s) == NumberPrefix(s).digits > 0

HasPoint(d, v) == \E k \in 1..Len(points) : points[k].date = d /\ points[k].value = v

C5_LatestIsLastChange ==
    (pc = "done" /\ parsed # Undefined) =>
        /\ latest = (IF changesOnly = <<>> THEN Null ELSE changesOnly[Len(changesOnly)])
        /\ (latest = Null <=> points = <<>>)

\* A series with several changes: latest is the last of them, not the first.
C5_Witness ==
    /\ pc = "done"
    /\ status = 200
    /\ Len(changesOnly) >= 2
    /\ latest = changesOnly[Len(changesOnly)]
    /\ latest # changesOnly[1]

\* The envelope of a document, Undefined when it has none to search.
EnvelopeOf(doc) ==
    LET e == IF Truthy(FieldOf(doc, "Envelope")) THEN FieldOf(doc, "Envelope")
             ELSE FieldOf(doc, "envelope")
    IN IF IsStructured(e) THEN e ELSE Undefined

\* What each strategy of findObservations finds on its own, Null for nothing.
Strategy1(doc) ==
    LET env == EnvelopeOf(doc)
        c == IF Truthy(FieldOf(env, "Cube")) THEN FieldOf(env, "Cube")
             ELSE FieldOf(env, "cube")
    IN IF Truthy(c) THEN AsArray(c) ELSE Null

Strategy2(doc) ==
    LET env == EnvelopeOf(doc)
    IN IF env # Undefined /\ findCubesRecursive(env, 0) # <<>>
       THEN Arr(findCubesRecursive(env, 0)) ELSE Null

Strategy3(doc) ==
    LET env == EnvelopeOf(doc)
    IN IF env # Undefined /\ Truthy(ObsOfEnvelope(env))
       THEN AsArray(ObsOfEnvelope(env)) ELSE Null

Strategy4(doc) ==
    IF FieldOf(doc, "Cube").t = "array" THEN FieldOf(doc, "Cube")
    ELSE IF FieldOf(doc, "cube").t = "array" THEN FieldOf(doc, "cube")
    ELSE Null

Strategy5(doc) ==
    IF IsStructured(doc) /\ findCubesRecursive(doc, 0) # <<>>
    THEN Arr(findCubesRecursive(doc, 0)) ELSE Null

Strategies(doc) ==
    <<Strategy1(doc), Strategy2(doc), Strategy3(doc), Strategy4(doc), Strategy5(doc)>>

FirstFound(rs) ==
    IF \E i \in 1..Len(rs) : rs[i] # Null
    THEN rs[Least({i \in 1..Len(rs) : rs[i] # Null})]
    ELSE Null

\* C9: findObservations returns what the first of its strategies, in the
\* order envelope Cube, search of the envelope, envelope Obs chain, top-level
\* Cube list, search from the root, finds; null when none finds anything.
C9_FirstStrategyWins ==
    (pc = "done" /\ parsed # Undefined) => observations = FirstFound(Strategies(parsed))

\* All five strategies find something, each something else; the envelope's
\* Cube field is returned.
C9_Witness ==
    /\ pc = "done"
    /\ \A i \in 1..5 : Strategies(parsed)[i] # Null
    /\ \A i \in 2..5 : Strategies(parsed)[i] # Strategies(parsed)[1]
    /\ observations = Arr(<<P1, P2>>)

\* The value at a path of keys below a document.
RECURSIVE PathGet(_, _)
PathGet(v, path) ==
    IF path = <<>> THEN v ELSE PathGet(FieldOf(v, Head(path)), Tail(path))

\* v is a point-node or a list of point-nodes, each with a date and a value.
IsPointNodes(v) ==
    /\ IsStructured(v)
    /\ \A i \in 1..Len(AsArray(v).a) :
          IsStructured(AsArray(v).a[i]) /\ BothNonEmpty(AsArray(v).a[i])

\* The paths at which the three shapes hold their point-nodes.
PathsA == {<<e, c>> : e \in {"Envelope", "envelope"}, c \in {"Cube", "cube"}}
PathsB == {<<"Envelope", k1, k2, "Cube">> : k1 \in ChainKeys, k2 \in ChainKeys}
PathsC == {<<"Envelope", "message", "DataSet", "Series", "Obs">>}

\* The document that holds v at the path and nothing else.
RECURSIVE Only(_, _)
Only(path, v) == IF path = <<>> THEN v ELSE Wrap(Head(path), Only(Tail(path), v))

HasShape(doc, paths) ==
    \E path \in paths :
        IsPointNodes(PathGet(doc, path)) /\ doc = Only(path, PathGet(doc, path))

ShapePath(doc, paths) ==
    CHOOSE path \in paths :
        IsPointNodes(PathGet(doc, path)) /\ doc = Only(path, PathGet(doc, path))

\* One observation per distinct date of the point-nodes at the path.
OnePointPerDate(doc, path) ==
    LET nodes == AsArray(PathGet(doc, path)).a
        dates == {DateIfNonEmpty(nodes[i]).s : i \in 1..Len(nodes)}
    IN /\ observations # Null
       /\ {points[k].date : k \in 1..Len(points)} = dates
       /\ Len(points) = Cardinality(dates)

\* C10 as stated: for a document of shape (a), (b) or (c) findObservations
\* returns a list and parseDataPoints makes one Observation per distinct date
\* of the document's point-nodes.
C10_ThreeShapesParsed ==
    (pc = "done" /\ HasShape(parsed, PathsA \cup PathsB \cup PathsC)) =>
        OnePointPerDate(parsed, ShapePath(parsed, PathsA \cup PathsB \cup PathsC))

\* The same for shapes (a) and (c), for point-nodes in a Cube of the
\* envelope's Cube, and for shape (b) when the element right below the
\* envelope is not a Cube (held by the code).
C10_ShapesFoundBySearch ==
    LET paths == PathsA \cup PathsC \cup {<<"Envelope", "Cube", "Cube">>}
                     \cup {p \in PathsB : p[2] # "Cube"}
    IN (pc = "done" /\ HasShape(parsed, paths)) =>
           OnePointPerDate(parsed, ShapePath(parsed, paths))

(***************************************************************************)
(* C11                                                                     *)
(***************************************************************************)
NoStrategyFinds(doc) == \A i \in 1..Len(Strategies(doc)) : Strategies(doc)[i] = Null

\* A point as parseDataPoints builds it: a non-empty date string and a
\* number, NaN included.
IsPoint(p) == p.date # <<>> /\ p.value.t = "number"

\* C11: on every document built from maps, lists, scalars and absent values
\* no property read of findObservations or parseDataPoints raises;
\* findObservations returns null exactly when none of its strategies finds
\* anything and an array otherwise; parseDataPoints returns a list of
\* points, which is empty when no candidate carries both a date and a value.
C11_MalformedShapesNeverRaise ==
    /\ ~findObservationsThrows(parsed)
    /\ pc # "search" =>
          /\ (observations = Null) <=> NoStrategyFinds(parsed)
          /\ observations # Null =>
                /\ observations.t = "array"
                /\ ~parseDataPointsThrows(observations.a)
    /\ pc = "done" =>
          /\ \A i \in 1..Len(points) : IsPoint(points[i])
          /\ points # <<>> =>
                \E i \in 1..Len(CandidatesOf(observations.a)) :
                    BothNonEmpty(CandidatesOf(observations.a)[i])

\* The envelope's Cube list holds null next to something that is no node:
\* it is found, and parsed to no point.
C11_Witness ==
    /\ pc = "done"
    /\ observations # Null
    /\ \E i \in 1..Len(observations.a) : observations.a[i] = Null
    /\ points = <<>>
    /\ Get(parsed, "Envelope") # Undefined

(***************************************************************************)
(* C12 - C16: the functions of finance.ts                                  *)
(***************************************************************************)
Amortised == returned["monthlyPaymentAmortised"]
InterestOnly == returned["monthlyPaymentInterestOnly"]
Compound == returned["savingsCompoundMonthly"]
Simple == returned["savingsSimple"]

\* x is a number below zero; x is a number above zero.
Negative(x) == ~x.nan /\ x.m # <<>> /\ x.neg
Positive(x) == ~x.nan /\ x.m # <<>> /\ ~x.neg

\* x is NaN or negative.
Bad(x) == x.nan \/ Negative(x)

\* C12: monthlyPaymentAmortised and monthlyPaymentInterestOnly return the
\* number 0 whenever one of their arguments is NaN or negative, and
\* monthlyPaymentAmortised returns 0 whenever the principal is 0 or the
\* years are 0, whatever the other arguments are.
C12_PaymentsGuardToZero ==
    /\ Amortised # Undefined =>
          /\ Amortised.t = "double"
          /\ (Bad(amount) \/ Bad(ratePct) \/ Bad(term)) => Amortised = FZero
          /\ (IsZero(amount) \/ IsZero(term)) => Amortised = FZero
    /\ InterestOnly # Undefined =>
          /\ InterestOnly.t = "double"
          /\ (Bad(amount) \/ Bad(ratePct)) => InterestOnly = FZero

\* A positive principal and term with a NaN rate: both payments are 0.
C12_Witness ==
    /\ Positive(amount) /\ Positive(term) /\ IsNaN(ratePct)
    /\ Amortised = FZero
    /\ InterestOnly = FZero

\* C13: savingsCompoundMonthly and savingsSimple return their balance
\* argument as it is whenever the months are 0 and whenever one of the
\* arguments is NaN or negative.
C13_SavingsGuardToBalance ==
    /\ (Compound # Undefined
            /\ (IsZero(term) \/ Bad(amount) \/ Bad(ratePct) \/ Bad(term))) => Compound = amount
    /\ (Simple # Undefined
            /\ (IsZero(term) \/ Bad(amount) \/ Bad(ratePct) \/ Bad(term))) => Simple = amount

\* A positive balance over positive months at a negative rate comes back
\* unchanged from both.
C13_Witness ==
    /\ Positive(amount) /\ Positive(term) /\ Negative(ratePct)
    /\ Compound = amount
    /\ Simple = amount

\* C14 as stated: at rate 0 and years above 0, monthlyPaymentAmortised
\* returns principal / (years * 12) for every principal.
C14_ZeroRateEveryPrincipal ==
    (Amortised # Undefined /\ IsZero(ratePct) /\ Positive(term)) =>
        Amortised = FDiv(amount, FMul(term, FromInt(12)))

\* C14, amended: at rate 0 and years above 0, monthlyPaymentAmortised
\* returns principal / (years * 12) for every principal that is not
\* negative and not NaN; for those it returns 0.
C14_ZeroRateNonNegativePrincipal ==
    (Amortised # Undefined /\ IsZero(ratePct) /\ Positive(term)) =>
        IF Bad(amount) THEN Amortised = FZero
        ELSE Amortised = FDiv(amount, FMul(term, FromInt(12)))

\* 1000 over 2 years at rate 0.
C14_Witness ==
    /\ Positive(amount) /\ IsZero(ratePct) /\ term = FromInt(2)
    /\ Amortised # Undefined
    /\ Amortised # FZero
    /\ Amortised = FDiv(amount, FromInt(24))

\* |x - y| is at most n units in the last place of x.
WithinUlps(x, y, n) ==
    LET d == FSub(x, y)
    IN IsZero(d) \/ Cmp(Float(FALSE, d.m, d.e), FMul(FromInt(n), Float(FALSE, ShiftLeft(<<1>>, Precision - 1), x.e))) # 1

\* C15 as stated: monthlyPaymentInterestOnly returns principal * rate / 1200
\* for every principal and rate.
C15_InterestOnlyEveryArgument ==
    InterestOnly # Undefined =>
        InterestOnly = FDiv(FMul(amount, ratePct), FromInt(1200))

\* C15, amended: for a principal and a rate that are not negative and not
\* NaN, monthlyPaymentInterestOnly returns principal * (rate / 100 / 12),
\* the monthly rate being formed first, which is principal * rate / 1200 up
\* to 4 units in the last place; for the other arguments it returns 0.
C15_InterestOnlyRateFirst ==
    InterestOnly # Undefined =>
        IF Bad(amount) \/ Bad(ratePct) THEN InterestOnly = FZero
        ELSE /\ InterestOnly = FMul(amount, FDiv(FDiv(ratePct, FromInt(100)), FromInt(12)))
             /\ WithinUlps(InterestOnly, FDiv(FMul(amount, ratePct), FromInt(1200)), 4)

\* 12689.54 at 2.92 percent: 30.87788066666667, where the division by 1200
\* in one step gives 30.877880666666666.
C15_Witness ==
    /\ amount = Decimal(1268954, 2) /\ ratePct = Decimal(292, 2)
    /\ InterestOnly # Undefined
    /\ InterestOnly # FDiv(FMul(amount, ratePct), FromInt(1200))
    /\ InterestOnly = FMul(amount, FDiv(FDiv(ratePct, FromInt(100)), FromInt(12)))

\* C16: for a balance above 0, a rate above 0 and more than one month,
\* savingsCompoundMonthly returns at least what savingsSimple returns.
C16_CompoundAtLeastSimple ==
    (Compound # Undefined /\ Simple # Undefined
        /\ Positive(amount) /\ Positive(ratePct) /\ FGreater(term, One)) =>
        FGreaterEq(Compound, Simple)

\* C16, supporting: it does so for the rates of at least 0.01 percent.
C16_CompoundAtLeastSimpleFromBasisPoint ==
    (Compound # Undefined /\ Simple # Undefined
        /\ Positive(amount) /\ FGreaterEq(ratePct, Decimal(1, 2)) /\ FGreater(term, One)) =>
        FGreaterEq(Compound, Simple)

(***************************************************************************)
(* Claims about the credit-card simulation (SpecCard)                      *)
(***************************************************************************)
\* What the simulation reads of its three fields (lines 296-298)
Balance == OrZero(loan.balance)
Apr == OrZero(loan.apr)
MonthlyRepayment == OrZero(loan.monthlyRepayment)

\* The interest of the month that starts with the balance of this state
InterestOfMonth == FMul(currentBalance, MonthlyRate(Apr))

\* C17: whenever the balance is 0 or the monthly repayment is 0, for any
\* APR, the simulation never enters its loop (no month is counted, nothing
\* accrues) and returns {monthsToRepay: absent, totalInterest: 0,
\* willNotRepay: false}.
C17_DegenerateShortCircuit ==
    (IsZero(Balance) \/ IsZero(MonthlyRepayment))
        => /\ pc \in {"loanResults", "done"}
           /\ months = 0
           /\ currentBalance = FZero
           /\ totalInterest = FZero
           /\ (pc = "done") => (loanResults = Result(Null, FZero, FALSE))

C17_Witness ==
    /\ pc = "done"
    /\ IsZero(MonthlyRepayment)
    /\ ~IsZero(Balance)
    /\ Apr = FromInt(18)
    /\ loanResults = Result(Null, FZero, FALSE)

BalanceCleared ==
    /\ pc = "done"
    /\ ~(IsZero(Balance) \/ IsZero(MonthlyRepayment))
    /\ ~FGreater(currentBalance, Cent)

\* C19 (as stated): when the running balance is at or below 0.01 for the
\* first time after k payments that each exceeded the month's interest, for
\* any k up to and including 600, the simulation returns monthsToRepay = k
\* and willNotRepay = false.
C19_RepaidWithinOrAtCap ==
    (BalanceCleared /\ months <= maxMonths)
        => /\ loanResults.monthsToRepay = Num(months)
           /\ loanResults.willNotRepay = FALSE

\* C19 (what the code does): the same for every k below the cap of 600
C19_RepaidBeforeCap ==
    (BalanceCleared /\ months < maxMonths)
        => (loanResults = Result(Num(months), totalInterest, FALSE))

\* A debt is cleared by its 14th payment and reported so
C19_RepaidBeforeCapWitness ==
    /\ BalanceCleared
    /\ months = 14
    /\ loanResults.monthsToRepay = Num(14)

\* C19: a debt cleared by exactly the 600th payment is reported as one that
\* will not be repaid
C19_RepaidAtCapReportedStuck ==
    /\ BalanceCleared
    /\ months = maxMonths
    /\ loanResults = Result(Null, totalInterest, TRUE)

\* C20: for every balance, APR and monthly repayment the simulation
\* terminates, after at most 600 loop iterations; when 600 iterations have
\* passed with the balance still above 0.01 and no insufficient-payment
\* exit, it returns monthsToRepay absent, willNotRepay true and the
\* accumulated totalInterest.
C20_TerminatesWithinCap ==
    /\ <>(pc = "done")
    /\ [](months <= maxMonths)
    /\ [][(/\ pc = "while"
           /\ months = maxMonths
           /\ FGreater(currentBalance, Cent))
          => (/\ pc' = "done"
              /\ loanResults' = Result(Null, totalInterest, TRUE))]_vars

C20_Witness ==
    /\ pc = "done"
    /\ months = maxMonths
    /\ FGreater(currentBalance, Cent)
    /\ FGreater(totalInterest, FZero)
    /\ loanResults = Result(Null, totalInterest, TRUE)

\* The simulation returned from inside the loop: its condition still holds
\* of the balance and the month counter it stopped at, and the repayment
\* does not exceed the interest of that month.
StoppedInsufficient ==
    /\ pc = "done"
    /\ LoopContinues(currentBalance, months)
    /\ FLessEq(MonthlyRepayment, InterestOfMonth)

\* The loop ran into the cap with the balance still above 0.01
CapWithoutRepaying ==
    /\ pc = "done"
    /\ months >= maxMonths
    /\ FGreater(currentBalance, Cent)

\* C21 (as stated): in every result of the credit-card simulation
\* willNotRepay = true implies that monthsToRepay is absent, and
\* willNotRepay is true exactly when the simulation ended because a payment
\* did not exceed the month's interest or because the 600-month cap was
\* reached without the balance being repaid; both causes give a result of
\* the shape {monthsToRepay absent, totalInterest, willNotRepay true}.
C21_WillNotRepayCauses ==
    (pc = "done")
        => /\ loanResults.willNotRepay => (loanResults.monthsToRepay = Null)
           /\ loanResults.willNotRepay <=> (StoppedInsufficient \/ CapWithoutRepaying)
           /\ (StoppedInsufficient \/ CapWithoutRepaying)
                  => (loanResults = Result(Null, totalInterest, TRUE))

\* C21 (what the code does): willNotRepay is true exactly when a payment
\* did not exceed the month's interest or the month counter stands at the
\* cap, whatever the balance is then.
C21_WillNotRepayByCounter ==
    (pc = "done")
        => /\ loanResults.willNotRepay => (loanResults.monthsToRepay = Null)
           /\ loanResults.willNotRepay <=> (StoppedInsufficient \/ months >= maxMonths)
           /\ (StoppedInsufficient \/ months >= maxMonths)
                  => (loanResults = Result(Null, totalInterest, TRUE))

\* C21: willNotRepay is true of a run that neither stopped on an
\* insufficient payment nor kept a balance at the cap
C21_StuckWithoutCause ==
    /\ pc = "done"
    /\ loanResults.willNotRepay
    /\ ~StoppedInsufficient
    /\ ~CapWithoutRepaying
    /\ currentBalance = FZero

\* The credit-card fields of defaultInputs (lines 84-86) as parseFloat
\* gives them
DefaultCard ==
    [balance |-> FromInt(5000), apr |-> FromInt(18), monthlyRepayment |-> FromInt(200)]

\* The simulation has returned for the default credit card
DefaultCardDone == pc = "done" /\ loan = DefaultCard

\* C22 (as stated): the credit-card simulation for balance 5000, APR 18 and
\* monthly repayment 200 terminates with willNotRepay = false, a positive
\* totalInterest and a monthsToRepay between 28 and 30.
C22_DefaultCardIn28To30 ==
    DefaultCardDone
        => /\ loanResults.willNotRepay = FALSE
           /\ FGreater(loanResults.totalInterest, FZero)
           /\ loanResults.monthsToRepay \in {Num(n) : n \in 28..30}

\* C22 (what the code does): the same simulation returns willNotRepay =
\* false, monthsToRepay = 32 and a totalInterest between 1313 and 1314.
C22_DefaultCardIn32 ==
    DefaultCardDone
        => /\ loanResults.willNotRepay = FALSE
           /\ FGreater(loanResults.totalInterest, FromInt(1313))
           /\ FLess(loanResults.totalInterest, FromInt(1314))
           /\ loanResults.monthsToRepay = Num(32)

C22_Witness ==
    /\ DefaultCardDone
    /\ months = 32
    /\ ~FGreater(currentBalance, Cent)
    /\ loanResults = Result(Num(32), totalInterest, FALSE)

\* Line 159 and line 160 on the state
baseRate == latestRate
scenarioRate == ScenarioRateOf(latestRate, inputs)

\* The mortgage panel holds the payment at baseRate + margin, the payment
\* at scenarioRate + margin and their difference
MortgageCompared ==
    \E loanAmount \in {OrZero(inputs.mortgage.loanAmount)},
       termYears \in {OrZero(inputs.mortgage.termYears)},
       now \in {FAdd(baseRate, OrZero(inputs.mortgage.lenderMargin))},
       scenario \in {FAdd(scenarioRate, OrZero(inputs.mortgage.lenderMargin))} :
        /\ mortgageResults.paymentNow =
               MortgagePayment(inputs.mortgage.repaymentType, loanAmount, now, termYears)
        /\ mortgageResults.paymentScenario =
               MortgagePayment(inputs.mortgage.repaymentType, loanAmount, scenario,
                               termYears)
        /\ mortgageResults.difference =
               FSub(mortgageResults.paymentScenario, mortgageResults.paymentNow)

\* The savings panel holds the final balance at the rate now, the final
\* balance at the rate scenario and their difference
SavingsComparedAt(now, scenario) ==
    \E balance \in {OrZero(inputs.savings.balance)},
       nMonths \in {OrZero(inputs.savings.timeMonths)} :
        /\ savingsResults.finalBalanceNow =
               FinalBalance(inputs.savings.interestType, balance, now, nMonths)
        /\ savingsResults.finalBalanceScenario =
               FinalBalance(inputs.savings.interestType, balance, scenario, nMonths)
        /\ savingsResults.difference =
               FSub(savingsResults.finalBalanceScenario, savingsResults.finalBalanceNow)

\* The savings rates over the Bank Rate and over the scenario rate
SavingsCompared ==
    \E now \in {FAdd(baseRate, OrZero(inputs.savings.margin))},
       scenario \in {FAdd(scenarioRate, OrZero(inputs.savings.margin))} :
        SavingsComparedAt(now, scenario)

\* The numbers of the loan panel
LoanNumbers == {loanResults[f] : f \in DOMAIN loanResults \ {"mode"}}

\* The loan panel holds the payment at the rate now, the payment at the
\* rate scenario and their difference
LoanComparedAt(now, scenario) ==
    \E loanAmount \in {OrZero(inputs.loan.loanAmount)},
       termYears \in {OrZero(inputs.loan.termYears)} :
        \E paymentNow \in {monthlyPaymentAmortised(loanAmount, now, termYears)},
           paymentScenario \in {monthlyPaymentAmortised(loanAmount, scenario, termYears)} :
            /\ paymentNow \in LoanNumbers
            /\ paymentScenario \in LoanNumbers
            /\ FSub(paymentScenario, paymentNow) \in LoanNumbers

LoanCompared ==
    \E now \in {FAdd(baseRate, OrZero(inputs.loan.margin))},
       scenario \in {FAdd(scenarioRate, OrZero(inputs.loan.margin))} :
        LoanComparedAt(now, scenario)

\* C23 (as stated): for each product (mortgage, savings, loan) and each
\* scenario delta in {-0.50, -0.25, 0, +0.25, +0.50} the composer computes
\* scenarioRate = baseRate + delta, evaluates the product's calculator once
\* at baseRate and once at scenarioRate, each plus the product's margin,
\* and reports both results and their difference.
C23_EveryProductCompared ==
    (pc = "page")
        => /\ inputs.scenarioChange \in ScenarioChanges
           /\ MortgageCompared
           /\ (inputs.savings.savingsMode = "margin") => SavingsCompared
           /\ (inputs.loan.rateMode = "margin") => LoanCompared

\* C23 (what the code does): the mortgage and, over a margin, the savings
\* are compared; the loan panel holds the results at the Bank Rate plus
\* margin alone.
C23_MortgageAndSavingsCompared ==
    (pc = "page")
        => /\ inputs.scenarioChange \in ScenarioChanges
           /\ MortgageCompared
           /\ (inputs.savings.savingsMode = "margin") => SavingsCompared
           /\ loanResults = PersonalLoanResultsOf(inputs.loan, baseRate)
           /\ DOMAIN loanResults
                  = {"mode", "monthlyPayment", "totalInterest", "totalPaid", "annualRate"}

\* C23: the scenario is half a point up and the loan panel holds no payment
\* at the scenario rate
C23_LoanWithoutScenario ==
    /\ pc = "page"
    /\ inputs.scenarioChange = Decimal(5, 1)
    /\ inputs.loan.rateMode = "margin"
    /\ MortgageCompared
    /\ FGreater(mortgageResults.difference, FZero)
    /\ ~LoanCompared

UserValues(item) == item # Null /\ item # Stringify(defaultInputs, "mortgage")

\* C25 (as stated): calculator inputs, the selected scenario and the active
\* tab survive a page refresh: once mounting settles after a refresh, the
\* component state equals the record that was stored before the refresh
\* and the stored record still equals it, however often the effects ran on
\* mount; and while the component mounts, the save of the default inputs
\* never replaces the user's stored values.
C25_InputsSurviveRefresh ==
    /\ (pc = "mounted" /\ storedBefore # Null)
           => /\ inputs = JsonParse(storedBefore)
              /\ activeTab = JsonParse(storedBefore).activeTab
              /\ storage = storedBefore
    /\ (pc = "mounting" /\ UserValues(storedBefore)) => UserValues(storage)

\* C25: after a refresh the component has settled on the default inputs and
\* has stored them over the user's values
C25_UserValuesLost ==
    /\ pc = "mounted"
    /\ UserValues(storedBefore)
    /\ JsonParse(storedBefore).mortgage.loanAmount = FromInt(300000)
    /\ JsonParse(storedBefore).activeTab = "savings"
    /\ inputs = defaultInputs
    /\ activeTab = "mortgage"
    /\ storage = Stringify(defaultInputs, "mortgage")

\* C25: while the component mounts the stored item holds the default
\* inputs, and the user's values are only in the update still to be
\* rendered (one run of the effects) or nowhere (two runs)
C25_DefaultsStoredOnMount ==
    /\ pc = "mounting"
    /\ UserValues(storedBefore)
    /\ storage = Stringify(defaultInputs, "mortgage")

\* The point-nodes under the keys Cube and cube of every map of the subtree
\* of obj that lies at most MaxDepth levels below the start of the search,
\* depth first: the map's own, then those of its children in key order; the
\* maps of a list are children as the map of a single element is.
RECURSIVE CubesOfSubtree(_, _)
RECURSIVE CubesOfChildren(_, _, _)
CubesOfChildren(values, i, depth) ==
    IF i > Len(values) THEN <<>>
    ELSE CubesOfSubtree(values[i], depth + 1) \o CubesOfChildren(values, i + 1, depth)

CubesOfSubtree(obj, depth) ==
    IF depth > MaxDepth \/ ~IsStructured(obj) THEN <<>>
    ELSE IF obj.t = "array" THEN CubesOfChildren(obj.a, 1, depth - 1)
    ELSE CubesUnder(obj, "Cube") \o CubesUnder(obj, "cube")
             \o CubesOfChildren(OwnValues(obj), 1, depth)

\* C26 (as stated): findCubesRecursive returns, in depth-first discovery
\* order, every node held under a key Cube or cube of any map anywhere in
\* the subtree within 5 levels of the node it starts from.
C26_EveryCubeWithinBound ==
    pc = "done" => observations = Arr(CubesOfSubtree(parsed, 0))

\* C26: the same on documents in which no map lies in a list; a map more
\* than 5 levels down contributes nothing.
C26_EveryCubeOfNestedMaps ==
    (pc = "done" /\ parsed \in SearchChains \cup SearchSiblings)
        => /\ observations = Arr(CubesOfSubtree(parsed, 0))
           /\ \A k \in (MaxDepth + 1)..MaxSearchDepth :
                  \A leaf \in SearchLeaves :
                      parsed = Nested(k, leaf) => observations = Arr(<<>>)

\* C26: two Group elements one level down hold three point-nodes and the
\* search returns none
C26_CubesInListMissed ==
    /\ pc = "done"
    /\ parsed = Wrap("Group", Arr(<<Wrap("Cube", Arr(<<P1, P2>>)), Wrap("Cube", P3)>>))
    /\ observations = Arr(<<>>)
    /\ CubesOfSubtree(parsed, 0) = <<P1, P2, P3>>

\* C26: point-nodes 5 levels down are returned after those of the levels
\* above, in key order
C26_FoundAtDepthFive ==
    /\ pc = "done"
    /\ parsed = Node(<< <<"Group", Nested(4, Wrap("Cube", P2))>>, <<"Cube", P1>>,
                        <<"Data", Wrap("cube", Arr(<<P3, P1>>))>> >>)
    /\ observations = Arr(<<P1, P2, P3, P1>>)

\* Lines 837-864: the status of the credit-card results panel and the
\* explanation under it
StatusShown(results) ==
    IF results.willNotRepay
    THEN [status |-> "Will not repay",
          explanation |-> "Monthly repayment is less than or equal to monthly interest"]
    ELSE IF results.monthsToRepay = Null
    THEN [status |-> "Exceeds maximum simulation period (50 years)", explanation |-> ""]
    ELSE [status |-> "Months to repay", explanation |-> ""]

\* The simulation was not run: the balance or the repayment is 0 or unset
NotSimulated ==
    pc = "done" /\ Degenerate(OrZero(loan.balance), OrZero(loan.monthlyRepayment))

\* C27 (as stated): the status 'Will not repay' with the explanation
\* 'Monthly repayment is less than or equal to monthly interest' is shown
\* only when the simulation stopped because the repayment did not exceed a
\* month's interest, and the status 'Exceeds maximum simulation period
\* (50 years)' is shown exactly when the simulation ran into the 600-month
\* cap.
C27_StatusNamesCause ==
    (pc = "done")
        => /\ StatusShown(loanResults).status = "Will not repay" => StoppedInsufficient
           /\ StatusShown(loanResults).status = "Exceeds maximum simulation period (50 years)"
                  <=> (~NotSimulated /\ months >= maxMonths)

\* C27 (what the code does): 'Will not repay' is shown for an insufficient
\* repayment and for every run that reaches the cap, 'Exceeds maximum
\* simulation period (50 years)' is shown exactly when no simulation was run.
C27_StatusByFlags ==
    (pc = "done")
        => /\ StatusShown(loanResults).status = "Will not repay"
                  <=> (~NotSimulated /\ (StoppedInsufficient \/ months >= maxMonths))
           /\ StatusShown(loanResults).status = "Exceeds maximum simulation period (50 years)"
                  <=> NotSimulated

\* C27: a run into the cap, every repayment above the month's interest, is
\* shown as 'Will not repay'
C27_CapShownAsInsufficient ==
    /\ CapWithoutRepaying
    /\ ~StoppedInsufficient
    /\ FGreater(OrZero(loan.monthlyRepayment),
                FMul(currentBalance, MonthlyRate(OrZero(loan.apr))))
    /\ StatusShown(loanResults).status = "Will not repay"

\* C27: an empty balance field is shown as 'Exceeds maximum simulation
\* period (50 years)'
C27_EmptyShownAsExceeds ==
    /\ NotSimulated
    /\ months = 0
    /\ loan.balance = FNaN
    /\ StatusShown(loanResults).status = "Exceeds maximum simulation period (50 years)"

\* The answer is an error body of the given status and error field: no
\* field of a data body is in it
ErrorBody(code, text) ==
    /\ status = code
    /\ errorText = text
    /\ points = <<>>
    /\ changesOnly = <<>>
    /\ latest = Null

\* The body of the Bank passed the four checks made before it is searched
BodyParsed ==
    /\ ~response.rejects
    /\ response.status \in 200..299
    /\ ~response.html
    /\ response.length >= 100
    /\ response.parse # Throws

\* C28: the GET handler answers with status 502 and an error body for each
\* detected upstream failure, checked in this order: non-OK upstream
\* status, HTML instead of XML, body shorter than 100 characters after
\* trimming, XML parse error, no observations found, no valid data points;
\* any other exception (fetch or response.text() rejecting, reading the
\* keys of a first observation that is null) gives status 500; a data body
\* is returned only when none of these occurred.
C28_FailuresInOrder ==
    (pc = "done")
        => /\ response.rejects => ErrorBody(500, InternalError)
           /\ (~response.rejects /\ response.status \notin 200..299)
                  => ErrorBody(502, FetchError(response))
           /\ (~response.rejects /\ response.status \in 200..299 /\ response.html)
                  => ErrorBody(502, HtmlError)
           /\ (~response.rejects /\ response.status \in 200..299 /\ ~response.html
                   /\ response.length < 100)
                  => ErrorBody(502, EmptyError)
           /\ (~response.rejects /\ response.status \in 200..299 /\ ~response.html
                   /\ response.length >= 100 /\ response.parse = Throws)
                  => ErrorBody(502, ParseError)
           /\ (BodyParsed /\ NoObservations(findObservations(response.parse)))
                  => ErrorBody(502, NoObservationsError)
           /\ (BodyParsed /\ ~NoObservations(findObservations(response.parse))
                   /\ FirstKeysThrow(findObservations(response.parse)))
                  => ErrorBody(500, InternalError)
           /\ (BodyParsed /\ ~NoObservations(findObservations(response.parse))
                   /\ ~FirstKeysThrow(findObservations(response.parse))
                   /\ parseDataPoints(findObservations(response.parse).a) = <<>>)
                  => ErrorBody(502, NoPointsError)
           /\ status \in {200, 500, 502}
           /\ status = 200
                  => /\ BodyParsed
                     /\ errorText = ""
                     /\ points = parseDataPoints(findObservations(response.parse).a)
                     /\ points # <<>>
                     /\ changesOnly = getChangesOnly(points)
                     /\ latest = LatestOf(changesOnly)

\* C28: a short HTML page with status 200 is answered as HTML, a short HTML
\* page with status 404 as a failed fetch
C28_Witness ==
    /\ pc = "done"
    /\ ~response.rejects
    /\ response.html
    /\ response.length = 99
    /\ response.parse = Throws
    /\ \/ response.status = 200 /\ ErrorBody(502, HtmlError)
       \/ /\ response.status = 404
          /\ ErrorBody(502, "Failed to fetch data from Bank of England (Status: 404)")

\* The handler answered with a data body
DataResponse == pc = "done" /\ status = 200

\* C29: in every data response points and changesOnly are non-empty, latest
\* is non-null, and latest.value is the value of the last (most recent)
\* element of points, the value Home hands to the calculators as the base
\* rate; latest.date is that of the last point or an earlier one.
C29_LatestValueOfLastPoint ==
    DataResponse
        => /\ points # <<>>
           /\ changesOnly # <<>>
           /\ latest # Null
           /\ latest.value = points[Len(points)].value
           /\ LocaleCompare(latest.date, points[Len(points)].date) <= 0

\* C29: a data response of three points in which the rate last changed at
\* the second one: latest carries its date and the value of the third
C29_Witness ==
    /\ DataResponse
    /\ Len(points) = 3
    /\ Len(changesOnly) = 2
    /\ latest.date = points[2].date
    /\ latest.date # points[3].date
    /\ latest.value = points[3].value
    /\ latest.value # points[1].value

\* The balance, the APR and the repayment are those the claim is about
PositiveCard ==
    /\ FGreater(Balance, FZero)
    /\ FGreaterEq(Apr, FZero)
    /\ FGreater(MonthlyRepayment, FZero)

\* The balance an iteration that starts in this state leaves
BalanceAfterMonth == FSub(FAdd(currentBalance, InterestOfMonth), MonthlyRepayment)

\* C30 (as stated): for balance > 0, APR >= 0 and monthly repayment > 0 the
\* running balance strictly decreases at every completed iteration, so the
\* insufficient-payment exit is taken in the first month or not at all:
\* whenever the result has willNotRepay = true with fewer than 600 months
\* simulated, no month was completed and totalInterest is the first month's
\* interest, balance * apr / 1200 as the code computes it.
C30_ExitOnlyInFirstMonth ==
    PositiveCard
        => /\ (pc = "while" /\ LoopContinues(currentBalance, months)
                   /\ FGreater(MonthlyRepayment, InterestOfMonth))
                  => FLess(BalanceAfterMonth, currentBalance)
           /\ (pc = "done" /\ loanResults.willNotRepay /\ months < maxMonths)
                  => /\ months = 0
                     /\ totalInterest = FMul(Balance, MonthlyRate(Apr))

\* C30: a repayment of 124.20 on 8100 at 18.4 %, the interest of a month to
\* the penny: the first month's interest is computed a little lower, the
\* balance after the first month is above 8100
C30_BalanceGrows ==
    /\ pc = "while"
    /\ loan = [balance |-> FromInt(8100), apr |-> Decimal(184, 1),
               monthlyRepayment |-> Decimal(1242, 1)]
    /\ months = 1
    /\ FGreater(currentBalance, FromInt(8100))
    /\ FLess(totalInterest, Decimal(1242, 1))

\* C30: the same run ends in the second month, with the interest of two
\* months as totalInterest
C30_ExitInSecondMonth ==
    /\ pc = "done"
    /\ loan = [balance |-> FromInt(8100), apr |-> Decimal(184, 1),
               monthlyRepayment |-> Decimal(1242, 1)]
    /\ months = 1
    /\ loanResults.willNotRepay
    /\ loanResults.totalInterest = totalInterest
    /\ FGreater(totalInterest, Decimal(24839, 2))
    /\ FLess(totalInterest, Decimal(24841, 2))

====
